---- MODULE Spec2Model ----
(***************************************************************************)
(* Credit-card installment engine of Controle_Financeiro (src/cartao.py)   *)
(* together with the part of the dashboard (src/Controle.py) that stores   *)
(* the transactions the engine reads.                                      *)
(*                                                                         *)
(* Dates are records [year, month, day] of the proleptic Gregorian         *)
(* calendar, as datetime.date.  Money is a float in the program; here a    *)
(* value is an integer number of the smallest representable unit and a     *)
(* float division rounds its exact quotient to the nearest unit, so that   *)
(* the rounding drift of amount / n_parc is present in the model.          *)
(***************************************************************************)
EXTENDS Integers, Sequences, FiniteSets, TLC

VARIABLES
    transactions,    \* rows of table transactions, in id order: those of the logged-in user,
                     \* and in SpecSession those of every user, each with its user_id
    due_day,         \* the slider "Dia de vencimento da fatura"; a run that does not
                     \* draw the slider drops its position, which is then the default
    expanded,        \* pagina_cartao: expanded = expand_installments(df_cartao, due_day)
    summary,         \* pagina_cartao: result of compute_card_summary(expanded)
    summary_today,   \* compute_card_summary: local today = date.today()
    overview,        \* pagina_cartao: compras = build_purchase_overview(expanded)
    overview_today,  \* build_purchase_overview: local today = date.today()
    exception,       \* exception that ended the last script run, "none" if it completed
    pagina,          \* main: the page of the sidebar radio "Navegacao" the last run drew
    st_error,        \* main: the text the last run showed with st.error, "" if none
    df_cartao,       \* pagina_cartao: the frame of card expenses expand_installments was
                     \* given, as it is after the call; <<>> when the run built none
    resumo,          \* main: resumo and df_cat of compute_summary(df, ref_date), with the
                     \* ref_date of the call; <<>> when the run did not call it
    app_users,       \* rows of table app_users that are committed
    email_unique,    \* whether table app_users has a unique index on email: the table
                     \* is created outside the repository
    create_user_calls, \* create_user: where each call in progress stands, per session
    session_state,   \* st.session_state of the browser session: user, user_id, email
    read,            \* the last run: the user_id load_data was called with, the rows it
                     \* returned, and the rows the page drawn shows data of
    tabelas          \* rows of tables controle and investimentos, which the "Tabelas"
                     \* page reads; nothing in the repository writes them

vars == <<transactions, due_day, expanded, summary, summary_today,
          overview, overview_today, exception, pagina, st_error, df_cartao,
          resumo, app_users, email_unique, create_user_calls, session_state, read,
          tabelas>>

(***************************************************************************)
(* Bounds of the model.                                                    *)
(***************************************************************************)
MaxTx == 2
MaxInstallments == 3
MaxSessions == 2
MaxUsers == 3

(***************************************************************************)
(* datetime.date and dateutil.relativedelta                                *)
(***************************************************************************)
Date(y, m, d) == [year |-> y, month |-> m, day |-> d]

\* Python None in a column of dates (next_due), and the value of a local
\* today before the function that reads the clock has run.
NoDate == [year |-> 0, month |-> 0, day |-> 0]

Max(a, b) == IF a >= b THEN a ELSE b
Min(a, b) == IF a <= b THEN a ELSE b

IsLeap(y) == (y % 4 = 0 /\ y % 100 # 0) \/ y % 400 = 0

DaysInMonth(y, m) ==
    IF m = 2 THEN (IF IsLeap(y) THEN 29 ELSE 28)
    ELSE IF m \in {4, 6, 9, 11} THEN 30 ELSE 31

DateLT(a, b) ==
    \/ a.year < b.year
    \/ a.year = b.year /\ a.month < b.month
    \/ a.year = b.year /\ a.month = b.month /\ a.day < b.day

DateGE(a, b) == ~DateLT(a, b)

\* d + relativedelta(months=k): the month advances by k, the year carries,
\* and the day is cut back to the last day of the month reached.
AddMonths(d, k) ==
    LET total == (d.month - 1) + k
        y == d.year + (total \div 12)
        m == (total % 12) + 1
    IN  Date(y, m, Min(d.day, DaysInMonth(y, m)))

\* date.replace(day=dd) raises ValueError when the month has no day dd.
ReplaceDayRaises(d, dd) == dd \notin 1..DaysInMonth(d.year, d.month)

ReplaceDay(d, dd) == [d EXCEPT !.day = dd]

\* The day after d (the clock passing midnight).
NextDay(d) ==
    IF d.day < DaysInMonth(d.year, d.month) THEN Date(d.year, d.month, d.day + 1)
    ELSE IF d.month < 12 THEN Date(d.year, d.month + 1, 1)
    ELSE Date(d.year + 1, 1, 1)

\* pd.to_datetime(column): a date becomes the timestamp of its midnight.
to_datetime(d) ==
    [year |-> d.year, month |-> d.month, day |-> d.day,
     hour |-> 0, minute |-> 0, second |-> 0]

\* Series.dt.date: the calendar date of a timestamp, the time of day dropped.
dt_date(ts) == Date(ts.year, ts.month, ts.day)

(***************************************************************************)
(* Float arithmetic on monetary values.                                    *)
(***************************************************************************)
Abs(x) == IF x < 0 THEN -x ELSE x

\* a / b for b > 0: the exact quotient rounded to the nearest unit, ties to
\* even, as an IEEE-754 division rounds to the nearest representable value.
FloatDiv(a, b) ==
    LET q == a \div b          \* floor
        r == a % b             \* 0 <= r < b
    IN  IF 2 * r < b THEN q
        ELSE IF 2 * r > b THEN q + 1
        ELSE IF q % 2 = 0 THEN q ELSE q + 1



(***************************************************************************)
(* src/Controle.py: the stored transactions and how a page reads them.     *)
(***************************************************************************)
\* load_data: SELECT * FROM transactions WHERE user_id = %s ORDER BY date
\* DESC, then the date column through pd.to_datetime(...).dt.date.  The rows
\* of the model are those of the logged-in user.  ORDER BY date leaves the
\* order of rows of equal date to the database: every order is a result.
load_data(rows) ==
    LET n == Len(rows)
        perms == {p \in [1..n -> 1..n] : \A i, j \in 1..n : i # j => p[i] # p[j]}
        sorted(p) == \A i \in 1..n-1 : ~DateLT(rows[p[i]].date, rows[p[i+1]].date)
    IN  {[i \in 1..n |-> [rows[p[i]] EXCEPT !.date = dt_date(to_datetime(@))]] :
            p \in {q \in perms : sorted(q)}}

(***************************************************************************)
(* src/cartao.py: expand_installments                                      *)
(***************************************************************************)
\* Mutant: the count taken as stored, n_parc = int(row["installments"]).
n_parc_unclamped(row) == row.installments

\* n_parc = max(int(row["installments"]), 1)
n_parc_of(row) == Max(row.installments, 1)

\* Mutant: floor division (total_value // n_parc) in place of the division.
parcela_value_floor(row) == row.amount \div n_parc_of(row)

\* parcela_value = total_value / n_parc
parcela_value_of(row) == FloatDiv(row.amount, n_parc_of(row))

\* The division raises ZeroDivisionError when n_parc is 0.
parcela_value_raises(row) == n_parc_of(row) = 0

\* Mutant: the comparison of the purchase day with the due day made strict.
first_due_strict(purchase_date, dd) ==
    IF purchase_date.day < dd
    THEN ReplaceDay(purchase_date, dd)
    ELSE ReplaceDay(AddMonths(purchase_date, 1), dd)

\* Mutant: the first due date always in the month of the purchase.
first_due_same_month(purchase_date, dd) == ReplaceDay(purchase_date, dd)

\* The first due date: this month when the purchase day is not after the due
\* day, the following month otherwise.
first_due_of(purchase_date, dd) ==
    IF purchase_date.day <= dd
    THEN ReplaceDay(purchase_date, dd)
    ELSE ReplaceDay(AddMonths(purchase_date, 1), dd)

first_due_raises(purchase_date, dd) ==
    IF purchase_date.day <= dd
    THEN ReplaceDayRaises(purchase_date, dd)
    ELSE ReplaceDayRaises(AddMonths(purchase_date, 1), dd)

\* Mutant: each due date advanced from the previous one by k - 1 months,
\* so that the offsets from first_due accumulate (0, 1, 3, 6, ...).
due_date_cumulative(first_due, k) == AddMonths(first_due, (k * (k - 1)) \div 2)

\* due_date = first_due + relativedelta(months=k - 1)
due_date_of(first_due, k) == AddMonths(first_due, k - 1)

\* Mutant: for k in range(1, n_parc), the last installment not emitted.
expand_row_short(row, dd) ==
    [k \in 1..n_parc_of(row)-1 |->
        [transaction_id     |-> row.id,
         category           |-> row.category,
         purchase_date      |-> row.date,
         card_name          |-> row.card_name,
         description        |-> row.description,
         installment_no     |-> k,
         total_installments |-> n_parc_of(row),
         installment_value  |-> parcela_value_of(row),
         due_date           |-> dt_date(to_datetime(
                                   due_date_of(first_due_of(row.date, dd), k)))]]

\* Mutant: for k in range(n_parc), the installments numbered from 0.
expand_row_zero_based(row, dd) ==
    [k \in 1..n_parc_of(row) |->
        [transaction_id     |-> row.id,
         category           |-> row.category,
         purchase_date      |-> row.date,
         card_name          |-> row.card_name,
         description        |-> row.description,
         installment_no     |-> k - 1,
         total_installments |-> n_parc_of(row),
         installment_value  |-> parcela_value_of(row),
         due_date           |-> dt_date(to_datetime(
                                   due_date_of(first_due_of(row.date, dd), k - 1)))]]

\* The rows appended for one row of df: for k in range(1, n_parc + 1).
\* due_date is shown after out["due_date"] = pd.to_datetime(...).dt.date.
expand_row(row, dd) ==
    [k \in 1..n_parc_of(row) |->
        [transaction_id     |-> row.id,
         category           |-> row.category,
         purchase_date      |-> row.date,
         card_name          |-> row.card_name,
         description        |-> row.description,
         installment_no     |-> k,
         total_installments |-> n_parc_of(row),
         installment_value  |-> parcela_value_of(row),
         due_date           |-> dt_date(to_datetime(
                                   due_date_of(first_due_of(row.date, dd), k)))]]

RECURSIVE expand_installments(_, _)
expand_installments(df, dd) ==
    IF df = <<>> THEN <<>>
    ELSE expand_row(Head(df), dd) \o expand_installments(Tail(df), dd)

\* The exception that ends the loop over the rows, if any: for each row the
\* division comes before the first due date.
RECURSIVE expand_installments_error(_, _)
expand_installments_error(df, dd) ==
    IF df = <<>> THEN "none"
    ELSE IF parcela_value_raises(Head(df)) THEN "ZeroDivisionError"
    ELSE IF first_due_raises(Head(df).date, dd) THEN "ValueError"
    ELSE expand_installments_error(Tail(df), dd)

\* The frame df after expand_installments(df, due_day): the function reads
\* the rows through df.iterrows() and assigns to no cell of df.
expand_installments_df_after(df, dd) == df

expand_installments_raises(df, dd) == expand_installments_error(df, dd) # "none"

(***************************************************************************)
(* src/cartao.py: compute_card_summary                                     *)
(***************************************************************************)
\* The columns of a frame: expand_installments returns pd.DataFrame(), a
\* frame without columns, when it has no row to emit.
frame_columns(exp) == IF exp = <<>> THEN {} ELSE DOMAIN exp[1]

\* Mutant: the function without its first two lines, "if expanded.empty:
\* return 0.0, 0.0, 0.0".
card_summary_error_unguarded(exp) ==
    IF {"due_date", "installment_value"} \subseteq frame_columns(exp)
    THEN "none" ELSE "KeyError"

\* The exception compute_card_summary ends in, if any: expanded["due_date"]
\* raises KeyError on a frame without that column.
compute_card_summary_error(exp) ==
    IF exp = <<>> THEN "none"
    ELSE IF {"due_date", "installment_value"} \subseteq frame_columns(exp)
    THEN "none" ELSE "KeyError"

RECURSIVE SumValues(_)
SumValues(rows) ==
    IF rows = <<>> THEN 0
    ELSE Head(rows).installment_value + SumValues(Tail(rows))

\* Mutant: the month window restricted to the dates not before today.
card_summary_month_unpaid(exp, today) ==
    IF exp = <<>> THEN <<0, 0, 0>>
    ELSE
        LET mask_mes_atual(r) == r.due_date.year = today.year
                                 /\ r.due_date.month = today.month
                                 /\ DateGE(r.due_date, today)
            mask_ano_atual(r) == r.due_date.year = today.year
            mask_pago(r)      == mask_ano_atual(r) /\ DateLT(r.due_date, today)
            mask_a_pagar(r)   == mask_ano_atual(r) /\ DateGE(r.due_date, today)
        IN  <<SumValues(SelectSeq(exp, mask_mes_atual)),
              SumValues(SelectSeq(exp, mask_a_pagar)),
              SumValues(SelectSeq(exp, mask_pago))>>

\* Mutant: the debt still to pay taken over every year (mask_ano_atual
\* left out of mask_a_pagar).
card_summary_unpaid_any_year(exp, today) ==
    IF exp = <<>> THEN <<0, 0, 0>>
    ELSE
        LET mask_mes_atual(r) == r.due_date.year = today.year
                                 /\ r.due_date.month = today.month
            mask_ano_atual(r) == r.due_date.year = today.year
            mask_pago(r)      == mask_ano_atual(r) /\ DateLT(r.due_date, today)
            mask_a_pagar(r)   == DateGE(r.due_date, today)
        IN  <<SumValues(SelectSeq(exp, mask_mes_atual)),
              SumValues(SelectSeq(exp, mask_a_pagar)),
              SumValues(SelectSeq(exp, mask_pago))>>

\* Mutant: an installment due today in neither window of the year
\* (due_date > today in mask_a_pagar).
card_summary_unpaid_strict(exp, today) ==
    IF exp = <<>> THEN <<0, 0, 0>>
    ELSE
        LET mask_mes_atual(r) == r.due_date.year = today.year
                                 /\ r.due_date.month = today.month
            mask_ano_atual(r) == r.due_date.year = today.year
            mask_pago(r)      == mask_ano_atual(r) /\ DateLT(r.due_date, today)
            mask_a_pagar(r)   == mask_ano_atual(r) /\ DateLT(today, r.due_date)
        IN  <<SumValues(SelectSeq(exp, mask_mes_atual)),
              SumValues(SelectSeq(exp, mask_a_pagar)),
              SumValues(SelectSeq(exp, mask_pago))>>

\* Mutant: an installment due today in both windows of the year
\* (due_date <= today in mask_pago).
card_summary_paid_inclusive(exp, today) ==
    IF exp = <<>> THEN <<0, 0, 0>>
    ELSE
        LET mask_mes_atual(r) == r.due_date.year = today.year
                                 /\ r.due_date.month = today.month
            mask_ano_atual(r) == r.due_date.year = today.year
            mask_pago(r)      == mask_ano_atual(r) /\ DateGE(today, r.due_date)
            mask_a_pagar(r)   == mask_ano_atual(r) /\ DateGE(r.due_date, today)
        IN  <<SumValues(SelectSeq(exp, mask_mes_atual)),
              SumValues(SelectSeq(exp, mask_a_pagar)),
              SumValues(SelectSeq(exp, mask_pago))>>

\* <<valor_fatura_mes, divida_ano_a_pagar, valor_pago_ano>>
compute_card_summary(exp, today) ==
    IF exp = <<>> THEN <<0, 0, 0>>
    ELSE
        LET mask_mes_atual(r) == r.due_date.year = today.year
                                 /\ r.due_date.month = today.month
            mask_ano_atual(r) == r.due_date.year = today.year
            mask_pago(r)      == mask_ano_atual(r) /\ DateLT(r.due_date, today)
            mask_a_pagar(r)   == mask_ano_atual(r) /\ DateGE(r.due_date, today)
        IN  <<SumValues(SelectSeq(exp, mask_mes_atual)),
              SumValues(SelectSeq(exp, mask_a_pagar)),
              SumValues(SelectSeq(exp, mask_pago))>>

\* The frame expanded after compute_card_summary(expanded): the masks and
\* the sums are new objects, no cell of expanded is assigned.
compute_card_summary_expanded_after(exp, today) == exp

(***************************************************************************)
(* src/cartao.py: build_purchase_overview                                  *)
(***************************************************************************)
\* The group keys of expanded.groupby("transaction_id", dropna=False): the
\* distinct ids, in increasing order (groupby sorts its keys).
RECURSIVE SortedSeq(_)
SortedSeq(S) ==
    IF S = {} THEN <<>>
    ELSE LET m == CHOOSE x \in S : \A y \in S : x <= y
         IN  <<m>> \o SortedSeq(S \ {m})

\* Mutant: one group per row, the ids not merged.
group_keys_per_row(exp) == [i \in 1..Len(exp) |-> exp[i].transaction_id]

group_keys(exp) == SortedSeq({exp[i].transaction_id : i \in 1..Len(exp)})

\* The rows of one group, in their order in expanded.
group_rows(exp, tid) ==
    LET in_group(r) == r.transaction_id = tid
    IN  SelectSeq(exp, in_group)

\* g.sort_values("installment_no"): rows in increasing installment_no.
RECURSIVE sort_values(_)
sort_values(g) ==
    IF g = <<>> THEN <<>>
    ELSE LET i == CHOOSE a \in 1..Len(g) :
                      \A b \in 1..Len(g) :
                          \/ g[a].installment_no < g[b].installment_no
                          \/ g[a].installment_no = g[b].installment_no /\ a <= b
             rest == [k \in 1..Len(g)-1 |-> IF k < i THEN g[k] ELSE g[k+1]]
         IN  <<g[i]>> \o sort_values(rest)

\* Mutant: an installment due today counted as paid (d <= today).
paid_inclusive(dues, today) ==
    Cardinality({i \in 1..Len(dues) : ~DateLT(today, dues[i])})

\* Mutant: only the due dates of the year of today counted as paid.
paid_this_year(dues, today) ==
    Cardinality({i \in 1..Len(dues) : DateLT(dues[i], today) /\ dues[i].year = today.year})

\* paid = sum(1 for d in dues if d < today)
paid_of(dues, today) == Cardinality({i \in 1..Len(dues) : DateLT(dues[i], today)})

\* Mutant: the installment that is current counted as settled as well.
remaining_less_current(total_installments, paid) == Max(total_installments - paid - 1, 0)

\* remaining = total_installments - paid
remaining_of(total_installments, paid) == total_installments - paid

\* last_due = max(dues)
last_due_of(dues) ==
    LET S == {dues[i] : i \in 1..Len(dues)}
    IN  CHOOSE d \in S : \A e \in S : DateGE(d, e)

\* Mutant: the status decided by the last due date alone, a purchase being
\* active only while that date is after today (last_due > today).
status_by_last_due(remaining, last_due, today) ==
    IF DateLT(today, last_due) THEN "ativa" ELSE "concluida"

\* status: "concluida" if remaining <= 0 and last_due < today, else "ativa"
status_of(remaining, last_due, today) ==
    IF remaining <= 0 /\ DateLT(last_due, today) THEN "concluida" ELSE "ativa"

\* Mutant: the next due date sought among the dates after today (d > today).
next_due_strict(remaining, dues, today) ==
    LET future_dues == {dues[i] : i \in {j \in 1..Len(dues) : DateLT(today, dues[j])}}
    IN  IF remaining > 0 /\ future_dues # {}
        THEN CHOOSE d \in future_dues : \A e \in future_dues : DateGE(e, d)
        ELSE NoDate

\* next_due: None unless remaining > 0 and some due date is not before today,
\* and then the earliest of those.
next_due_of(remaining, dues, today) ==
    LET future_dues == {dues[i] : i \in {j \in 1..Len(dues) : DateGE(dues[j], today)}}
    IN  IF remaining > 0 /\ future_dues # {}
        THEN CHOOSE d \in future_dues : \A e \in future_dues : DateGE(e, d)
        ELSE NoDate

\* The row appended for one group.
overview_row(tid, group, today) ==
    LET g == sort_values(group)
        total_installments == g[1].total_installments
        parcela_value == g[1].installment_value
        dues == [i \in 1..Len(g) |-> g[i].due_date]
        paid == paid_of(dues, today)
        remaining == remaining_of(total_installments, paid)
    IN  [transaction_id         |-> tid,
         card_name              |-> g[1].card_name,
         category               |-> g[1].category,
         purchase_date          |-> g[1].purchase_date,
         total_installments     |-> total_installments,
         installments_paid      |-> paid,
         installments_remaining |-> remaining,
         total_value            |-> total_installments * parcela_value,
         remaining_value        |-> Max(0, remaining * parcela_value),
         next_due               |-> next_due_of(remaining, dues, today),
         description            |-> g[1].description,
         status                 |-> status_of(remaining, last_due_of(dues), today)]

\* Mutant: the installments already paid dropped from expanded in place.
expanded_paid_dropped(exp, today) ==
    LET unpaid(r) == DateGE(r.due_date, today)
    IN  SelectSeq(exp, unpaid)

\* The frame expanded after build_purchase_overview(expanded): groupby and
\* sort_values return new frames, no cell of expanded is assigned.
build_purchase_overview_expanded_after(exp, today) == exp

\* The exception build_purchase_overview ends in, if any:
\* expanded.groupby("transaction_id") raises KeyError on a frame without
\* that column.
build_purchase_overview_error(exp) ==
    IF exp = <<>> THEN "none"
    ELSE IF {"transaction_id", "installment_no", "total_installments",
             "installment_value", "due_date"} \subseteq frame_columns(exp)
    THEN "none" ELSE "KeyError"

\* Mutant: only the purchases still active are listed.
purchase_overview_active_only(exp, today) ==
    IF exp = <<>> THEN <<>>
    ELSE LET keys == group_keys(exp)
             all == [i \in 1..Len(keys) |->
                        overview_row(keys[i], group_rows(exp, keys[i]), today)]
             is_active(o) == o.status = "ativa"
         IN  SelectSeq(all, is_active)

build_purchase_overview(exp, today) ==
    IF exp = <<>> THEN <<>>
    ELSE LET keys == group_keys(exp)
         IN  [i \in 1..Len(keys) |-> overview_row(keys[i], group_rows(exp, keys[i]), today)]

(***************************************************************************)
(* Inputs of the model.                                                    *)
(***************************************************************************)
\* st.sidebar.slider("Dia de vencimento da fatura", min_value=1, max_value=28, value=5)
MinDueDay == 1
MaxDueDay == 28
DefaultDueDay == 5

SliderDays == MinDueDay..MaxDueDay

\* The payment forms of the selectbox "Forma de pagamento" (accents dropped).
CartaoDeCredito == "Cartao de credito"
PaymentTypes == {"Conta", CartaoDeCredito}
TTypes == {"entrada", "saida"}

Categories == {"Mercado"}
CardNames == {"Visa"}

\* str.strip() on the strings of the model.
strip(str) == IF str \in {"", " "} THEN "" ELSE str

\* Values the form "novo_lancamento" is submitted with.
FormDates == {Date(2023, 12, 3), Date(2024, 1, 31)}
FormCategories == Categories \cup {" "}
FormValores ==
    { <<>>,
      <<"0">>,
      <<"a", "b", "c">>,
      <<"-", "5", ",", "0", "0">>,
      <<"1", "0", ",", "0", "0">>,
      <<" ", "R", "$", " ", "1", "0", ",", "0", "0", " ">> }
FormInstallments == {1, MaxInstallments}

\* Slider positions and clock readings of a session.
SessionDueDays == {DefaultDueDay, MaxDueDay}
SessionMonths == {<<2023, 12>>, <<2024, 1>>, <<2024, 2>>, <<2024, 3>>,
                  <<2024, 4>>, <<2024, 5>>}
SessionDays == {5, 6, 28}
SessionTodays == {Date(ym[1], ym[2], d) : ym \in SessionMonths, d \in SessionDays}

\* One stored card purchase of any date of two years, one of them a leap
\* year.  A count below 1 is stored by the editor of the dashboard
\* (Controle.py, "Salvar alteracoes"), which writes Parcelas unchecked.
PurchaseYears == {2023, 2024}
PurchaseDates ==
    {dt \in {Date(y, m, d) : y \in PurchaseYears, m \in 1..12, d \in 1..31} :
        dt.day <= DaysInMonth(dt.year, dt.month)}
PurchaseAmounts == {1000, 2000}
StoredCounts == (0 - 1)..MaxInstallments
StoredPurchases ==
    {[id |-> 1, type |-> "saida", category |-> "Mercado", date |-> dt,
      amount |-> a, payment_type |-> CartaoDeCredito, card_name |-> "Visa",
      installments |-> n, description |-> ""] :
        dt \in PurchaseDates, a \in PurchaseAmounts, n \in StoredCounts}
PurchaseToday == Date(2024, 6, 15)

(***************************************************************************)
(* src/Controle.py: compute_summary                                        *)
(***************************************************************************)
\* get_month_range: the first and the last day of the month of target_date.
get_month_range(target_date) ==
    <<ReplaceDay(target_date, 1),
      ReplaceDay(target_date, DaysInMonth(target_date.year, target_date.month))>>

\* df[mask]: the rows of df the mask keeps, in the order of df.
RECURSIVE rows_where(_, _)
rows_where(df, mask) ==
    IF df = <<>> THEN <<>>
    ELSE (IF mask[1] THEN <<Head(df)>> ELSE <<>>)
             \o rows_where(Tail(df), [i \in 1..(Len(df) - 1) |-> mask[i + 1]])

\* df["amount"].sum(): 0 on no rows.
RECURSIVE sum_amount(_)
sum_amount(df) == IF df = <<>> THEN 0 ELSE Head(df).amount + sum_amount(Tail(df))

\* df_month: the rows dated within the month of ref_date.
df_month_of(df, ref_date) ==
    LET first_day == get_month_range(ref_date)[1]
        last_day == get_month_range(ref_date)[2]
    IN  rows_where(df, [i \in 1..Len(df) |->
                           DateGE(df[i].date, first_day) /\ DateGE(last_day, df[i].date)])

\* Mutant: total_saida over every expense, those paid by card among them.
mask_saidas_todas(df_month) == [i \in 1..Len(df_month) |-> df_month[i].type = "saida"]

\* mask_saidas_caixa: the expenses that are not paid by credit card.
mask_saidas_caixa(df_month) ==
    [i \in 1..Len(df_month) |->
        df_month[i].type = "saida" /\ df_month[i].payment_type # CartaoDeCredito]

\* The categories of the model in the order groupby("category") lists them.
CategoriasOrdenadas == <<"Lazer", "Mercado">>

\* sort_values("amount", ascending=False): the largest amount first, equal
\* amounts in the order they had.
sort_values_amount(rows) ==
    LET n == Len(rows)
        rank(i) == 1 + Cardinality({j \in 1..n :
                           \/ rows[j].amount > rows[i].amount
                           \/ rows[j].amount = rows[i].amount /\ j < i})
    IN  [k \in 1..n |-> rows[CHOOSE i \in 1..n : rank(i) = k]]

\* df_cat: the expenses of the month summed per category, card expenses
\* among them.
df_cat_of(df_month) ==
    LET saidas == rows_where(df_month, [i \in 1..Len(df_month) |-> df_month[i].type = "saida"])
        present(c) == \E i \in 1..Len(saidas) : saidas[i].category = c
        groups == SelectSeq(CategoriasOrdenadas, present)
        of_cat(c) == rows_where(saidas, [i \in 1..Len(saidas) |-> saidas[i].category = c])
    IN  sort_values_amount([k \in 1..Len(groups) |->
                               [category |-> groups[k], amount |-> sum_amount(of_cat(groups[k]))]])

\* compute_summary: resumo and df_cat; perc_comprometido in tenths of a
\* percent.  The six-month history df_hist is not followed.
compute_summary(df, ref_date) ==
    IF df = <<>>
    THEN [ref_date |-> ref_date, total_entrada |-> 0, total_saida |-> 0,
          total_investimento |-> 0, saldo |-> 0, perc_comprometido |-> 0, df_cat |-> <<>>]
    ELSE LET df_month == df_month_of(df, ref_date)
             total_entrada ==
                 sum_amount(rows_where(df_month,
                     [i \in 1..Len(df_month) |-> df_month[i].type = "entrada"]))
             total_saida == sum_amount(rows_where(df_month, mask_saidas_caixa(df_month)))
             total_investimento ==
                 sum_amount(rows_where(df_month,
                     [i \in 1..Len(df_month) |-> df_month[i].type = "investimento"]))
             comprometido == total_saida + total_investimento
         IN  [ref_date |-> ref_date,
              total_entrada |-> total_entrada,
              total_saida |-> total_saida,
              total_investimento |-> total_investimento,
              saldo |-> total_entrada - total_saida - total_investimento,
              perc_comprometido |-> (IF total_entrada > 0
                                     THEN FloatDiv(comprometido * 1000, total_entrada)
                                     ELSE 0),
              df_cat |-> df_cat_of(df_month)]

\* No summary: the run did not reach compute_summary.
NoResumo == <<>>

\* The date input "Mes de referencia" of the sessions that leave it alone.
MesDeReferencia == Date(2023, 12, 3)

\* The summary of a run that draws the Dashboard over the stored rows; the
\* order in which load_data returns rows of one date does not show in it.
resumo_of(rows, ref_date) == compute_summary(CHOOSE df \in load_data(rows) : TRUE, ref_date)

(***************************************************************************)
(* src/Controle.py: parse_brl_to_float                                     *)
(***************************************************************************)
\* A text typed in a field is a sequence of characters.  Amounts are whole
\* numbers of cents, so float("10.5") is 1050.
DigitChars == <<"0", "1", "2", "3", "4", "5", "6", "7", "8", "9">>
IsDigit(c) == \E i \in 1..Len(DigitChars) : DigitChars[i] = c
DigitVal(c) == (CHOOSE i \in 1..Len(DigitChars) : DigitChars[i] = c) - 1

RECURSIVE Pow10(_)
Pow10(n) == IF n = 0 THEN 1 ELSE 10 * Pow10(n - 1)

\* The number written by a sequence of digits; 0 for the empty sequence.
RECURSIVE DigitsVal(_)
DigitsVal(ds) ==
    IF ds = <<>> THEN 0
    ELSE 10 * DigitsVal(SubSeq(ds, 1, Len(ds) - 1)) + DigitVal(ds[Len(ds)])

\* str.strip(): the blanks at both ends removed.
RECURSIVE strip_text(_)
strip_text(s) ==
    IF s = <<>> THEN s
    ELSE IF Head(s) = " " THEN strip_text(Tail(s))
    ELSE IF s[Len(s)] = " " THEN strip_text(SubSeq(s, 1, Len(s) - 1))
    ELSE s

\* s.replace("R$", "")
RECURSIVE remove_currency(_)
remove_currency(s) ==
    IF Len(s) < 2 THEN s
    ELSE IF s[1] = "R" /\ s[2] = "$" THEN remove_currency(SubSeq(s, 3, Len(s)))
    ELSE <<Head(s)>> \o remove_currency(Tail(s))

\* s.replace(".", "").replace(",", ".")
decimal_point(s) ==
    LET not_dot(c) == c # "."
        no_dots == SelectSeq(s, not_dot)
    IN  [i \in 1..Len(no_dots) |-> IF no_dots[i] = "," THEN "." ELSE no_dots[i]]

\* The parts of a text float() reads: blanks at the ends dropped, then an
\* optional sign, then digits with at most one point among them.
float_body(s) ==
    LET t == strip_text(s)
    IN  IF t # <<>> /\ Head(t) \in {"+", "-"} THEN Tail(t) ELSE t

float_negative(s) ==
    LET t == strip_text(s)
    IN  t # <<>> /\ Head(t) = "-"

\* float(s) raises ValueError unless the body is digits with at most one
\* point and at least one digit.  (Exponents, underscores, "inf" and "nan"
\* are not among the texts of the model.)
float_raises(s) ==
    LET b == float_body(s)
        points == {i \in 1..Len(b) : b[i] = "."}
    IN  \/ \E i \in 1..Len(b) : ~IsDigit(b[i]) /\ b[i] # "."
        \/ Cardinality(points) > 1
        \/ Len(b) = Cardinality(points)

\* float(s) in cents, rounded to the nearest cent.
float(s) ==
    LET b == float_body(s)
        is_digit(c) == IsDigit(c)
        digits == SelectSeq(b, is_digit)
        points == {i \in 1..Len(b) : b[i] = "."}
        decimals == IF points = {} THEN 0 ELSE Len(b) - (CHOOSE i \in points : TRUE)
        cents == FloatDiv(DigitsVal(digits) * 100, Pow10(decimals))
    IN  IF float_negative(s) THEN 0 - cents ELSE cents

\* Mutant: the ValueError of float() is let through as the amount 1 cent.
parse_brl_unparsable_positive(valor_str) ==
    IF valor_str = <<>> THEN 0
    ELSE LET s == decimal_point(strip_text(remove_currency(strip_text(valor_str))))
         IN  IF float_raises(s) THEN 1 ELSE float(s)

parse_brl_to_float(valor_str) ==
    IF valor_str = <<>> THEN 0
    ELSE LET s == decimal_point(strip_text(remove_currency(strip_text(valor_str))))
         IN  IF float_raises(s) THEN 0 ELSE float(s)

(***************************************************************************)
(* src/Controle.py: authentication                                         *)
(***************************************************************************)
\* str.lower() on the letters of the model.
lower_char(c) ==
    CASE c = "A" -> "a"
      [] c = "B" -> "b"
      [] c = "C" -> "c"
      [] c = "M" -> "m"
      [] c = "X" -> "x"
      [] OTHER -> c
lower(s) == [i \in 1..Len(s) |-> lower_char(s[i])]

\* email.strip().lower(): the e-mail as it is stored and looked up.
email_key(email) == lower(strip_text(email))

\* Mutant: the e-mail is stored and looked up as typed.
email_as_typed(email) == email

\* hash_password: the SHA-256 digest, a text other than the password and
\* different for different passwords.
hash_password(password) == <<"sha256">> \o password
verify_password(password, hashed) == hash_password(password) = hashed

\* None where a user dict is expected, and a key that is not in
\* st.session_state.
NoUser == [id |-> 0, email |-> <<>>]
NoUserId == 0

\* authenticate_user: the results the call may give.  fetchone() takes one
\* of the rows of the e-mail, whichever the server returns first.
authenticate_user(users, email, password) ==
    IF email = <<>> \/ password = <<>> THEN {NoUser}
    ELSE LET found == {i \in 1..Len(users) : users[i].email = email_key(email)}
         IN  IF found = {} THEN {NoUser}
             ELSE {IF verify_password(password, users[i].password)
                   THEN [id |-> users[i].id, email |-> users[i].email]
                   ELSE NoUser : i \in found}

\* create_user, SELECT id FROM app_users WHERE email = %s: whether a row
\* that is committed has the e-mail.
existing_of(users, email) == \E i \in 1..Len(users) : users[i].email = email_key(email)

\* The id the sequence of app_users gives to a row inserted after ids.
nextval(ids) == 1 + (CHOOSE m \in ids \cup {0} : \A k \in ids : k <= m)

\* create_user, INSERT ... RETURNING id: the row the call inserts.
inserted_row(ids, email, hashed) ==
    [id |-> nextval(ids), email |-> email_key(email), password |-> hashed]

\* create_user run with no other call in progress: the table after the call
\* and what the call returns, NoUserId for None.
create_user(users, email, password) ==
    LET row == inserted_row({users[i].id : i \in 1..Len(users)}, email, hash_password(password))
    IN  IF existing_of(users, email)
        THEN [app_users |-> users, user_id |-> NoUserId]
        ELSE [app_users |-> Append(users, row), user_id |-> row.id]

\* Texts of login_screen.
EmailOuSenhaInvalidos == "E-mail ou senha invalidos."
SenhasNaoCoincidem == "As senhas nao coincidem."
SenhaCurta == "A senha deve ter pelo menos 4 caracteres."
EmailJaCadastrado == "Este e-mail ja esta cadastrado."
ContaCriada == "Conta criada com sucesso! Agora faca login."
MinSenha == 4

\* login_screen, "Criar Conta" pressed: what the checks before create_user
\* show, "" when they pass.
signup_check(new_pass, confirm_pass) ==
    IF new_pass # confirm_pass THEN SenhasNaoCoincidem
    ELSE IF Len(new_pass) < MinSenha THEN SenhaCurta
    ELSE ""

\* Mutant: the login leaves a user_id that is already in the session.
session_after_login_stale(ss, user) ==
    [user |-> user,
     user_id |-> (IF ss.user_id = NoUserId THEN user.id ELSE ss.user_id),
     email |-> user.email]

\* login_screen, a login that succeeded: the three keys it writes.
session_after_login(ss, user) == [user |-> user, user_id |-> user.id, email |-> user.email]

\* login_screen, "Sair": only "user" is written.
session_after_logout(ss) == [ss EXCEPT !.user = NoUser]

\* load_data, WHERE user_id = %s AND user_id IS NOT NULL: the rows of the
\* table with that user_id.  The parameter is str(user_id), which the
\* server reads back as the number.
select_user_id(table, user_id) == SelectSeq(table, LAMBDA r : r.user_id = user_id)

\* The rows of a frame, as a set.
rows_set(df) == {df[i] : i \in 1..Len(df)}

\* A run that draws the log-in screen and stops: load_data is not called.
NoRead == [user_id |-> NoUserId, df |-> {}, shown |-> {}]

\* A run that draws a page from what load_data(user_id) returned.
read_of(user_id, df) == [user_id |-> user_id, df |-> rows_set(df), shown |-> rows_set(df)]

\* A run of main past the log-in screen with no button of the screen
\* pressed: the accounts, the session and the tables of "Tabelas" stay.
session_kept == UNCHANGED <<app_users, email_unique, create_user_calls, session_state, tabelas>>

\* The browser sessions, and a session with no call of create_user.
Sessions == 1..MaxSessions
NoRow == [id |-> 0, email |-> <<>>, password |-> <<>>]
IdleCall == [pc |-> "idle", email |-> <<>>, hashed |-> <<>>, row |-> NoRow, user_id |-> NoUserId, message |-> ""]

\* The accounts of the model, and what their users type.
EmailA == <<"a", "@", "x">>
EmailB == <<"b", "@", "x">>
Senha1 == <<"1", "2", "3", "4">>
Senha2 == <<"a", "b", "c", "d">>
UserA == [id |-> 1, email |-> EmailA, password |-> hash_password(Senha1)]
UserB == [id |-> 2, email |-> EmailB, password |-> hash_password(Senha2)]

(***************************************************************************)
(* src/Controle.py: main, the form "novo_lancamento"                       *)
(***************************************************************************)
\* insert_transaction: the id is the serial of the table; rows are never
\* deleted, so the next serial is the number of rows plus one.
insert_transaction(rows, t_type, category, d, amount, payment_type, card_name, installments, description) ==
    Append(rows,
        [id |-> Len(rows) + 1, type |-> t_type, category |-> category, date |-> d,
         amount |-> amount, payment_type |-> payment_type, card_name |-> card_name,
         installments |-> installments, description |-> description])

\* st.error("Preencha categoria e valor maior que zero.")
PreenchaCategoriaEValor == "Preencha categoria e valor maior que zero."

\* A run of main on the Dashboard with the form submitted.  valor_str is
\* the text typed in "Valor (R$)".  The card fields are drawn only for an
\* expense paid by credit card; otherwise the form uses installments = 1
\* and card_name = "".  A saved submission ends in st.rerun(), whose run
\* shows no message; a rejected one ends the run with st.error.  Either way
\* the run draws the Dashboard, where none of the frames of the card page
\* exist.
NovoLancamento(t_type, payment_type, category, d, valor_str, n, card) ==
    LET show_card_fields == t_type = "saida" /\ payment_type = CartaoDeCredito
        installments == IF show_card_fields THEN n ELSE 1
        card_name == IF show_card_fields THEN card ELSE ""
        amount == parse_brl_to_float(valor_str)
    IN  /\ t_type # "saida" => payment_type = "Conta"
        /\ IF amount > 0 /\ strip(category) # ""
           THEN /\ transactions' = insert_transaction(transactions, t_type, category, d,
                                       amount, payment_type, card_name, installments, "")
                /\ st_error' = ""
           ELSE /\ UNCHANGED transactions
                /\ st_error' = PreenchaCategoriaEValor
        /\ pagina' = "Dashboard"
        /\ expanded' = <<>>
        /\ summary' = <<0, 0, 0>>
        /\ summary_today' = NoDate
        /\ overview' = <<>>
        /\ overview_today' = NoDate
        /\ exception' = "none"
        /\ df_cartao' = <<>>
        /\ due_day' = DefaultDueDay
        /\ resumo' = resumo_of(transactions', MesDeReferencia)
        /\ read' = read_of(session_state.user_id, transactions')
        /\ session_kept

(***************************************************************************)
(* src/cartao.py: pagina_cartao                                            *)
(***************************************************************************)
\* df_cartao: the expenses paid by credit card, after df["date"] went
\* through pd.to_datetime(...).dt.date once more.
df_cartao_of(df) ==
    LET conv == [i \in 1..Len(df) |-> [df[i] EXCEPT !.date = dt_date(to_datetime(@))]]
        is_card(r) == r.type = "saida" /\ r.payment_type = CartaoDeCredito
    IN  SelectSeq(conv, is_card)

\* A run of main with "Cartao de Credito" selected: df is what
\* load_data(user_id) returned, d the position of the slider, t the date the clock shows when
\* compute_card_summary reads it, and midnight tells whether the clock has
\* passed midnight by the time build_purchase_overview reads it.  The page
\* returns early, before the slider, when there is no card expense.
DrawPaginaCartao(df, d, t, midnight) ==
    LET dfc == df_cartao_of(df)
        exp == expand_installments(dfc, d)
        exp1 == compute_card_summary_expanded_after(exp, t)
        t2 == IF midnight THEN NextDay(t) ELSE t
    IN  /\ pagina' = "Cartao de Credito"
        /\ st_error' = ""
        /\ resumo' = NoResumo
        /\ read' = read_of(session_state.user_id, df)
        /\ session_kept
        /\ IF dfc = <<>>
           THEN /\ due_day' = DefaultDueDay
                /\ exception' = "none"
                /\ df_cartao' = <<>>
                /\ expanded' = <<>>
                /\ summary' = <<0, 0, 0>>
                /\ summary_today' = NoDate
                /\ overview' = <<>>
                /\ overview_today' = NoDate
           ELSE /\ due_day' = d
                /\ IF expand_installments_raises(dfc, d)
                   THEN /\ exception' = expand_installments_error(dfc, d)
                        /\ df_cartao' = dfc
                        /\ expanded' = <<>>
                        /\ summary' = <<0, 0, 0>>
                        /\ summary_today' = NoDate
                        /\ overview' = <<>>
                        /\ overview_today' = NoDate
                   ELSE /\ exception' = "none"
                        /\ df_cartao' = expand_installments_df_after(dfc, d)
                        /\ summary' = compute_card_summary(exp, t)
                        /\ summary_today' = (IF exp = <<>> THEN NoDate ELSE t)
                        /\ overview' = build_purchase_overview(exp1, t2)
                        /\ overview_today' = (IF exp1 = <<>> THEN NoDate ELSE t2)
                        /\ expanded' = build_purchase_overview_expanded_after(exp1, t2)

\* A run of the card page in which no button of the page was pressed.
PaginaCartao(df, d, t, midnight) ==
    /\ DrawPaginaCartao(df, d, t, midnight)
    /\ UNCHANGED transactions

\* Mutant: the UPDATE also sets amount, to zero.
update_transaction_fields_and_amount(rows, transaction_id, new_category, new_card_name, new_description) ==
    [i \in 1..Len(rows) |->
        IF rows[i].id = transaction_id
        THEN [rows[i] EXCEPT !.category = new_category,
                             !.card_name = new_card_name,
                             !.description = new_description,
                             !.amount = 0]
        ELSE rows[i]]

\* update_transaction_fields: UPDATE transactions SET category, card_name,
\* description WHERE id = transaction_id.
update_transaction_fields(rows, transaction_id, new_category, new_card_name, new_description) ==
    [i \in 1..Len(rows) |->
        IF rows[i].id = transaction_id
        THEN [rows[i] EXCEPT !.category = new_category,
                             !.card_name = new_card_name,
                             !.description = new_description]
        ELSE rows[i]]

\* The loop of "Salvar alteracoes (ativas)" and "Salvar alteracoes
\* (concluidas)" from row k on: base are the purchases as the run drew them,
\* novo the same rows as the editor returned them; a row is written when
\* its card, category or description differs.
RECURSIVE salvar_compras(_, _, _, _)
salvar_compras(rows, base, novo, k) ==
    IF k > Len(novo) THEN rows
    ELSE LET row_old == base[k]
             row_new == novo[k]
             changed == \/ row_old.card_name # row_new.card_name
                        \/ row_old.category # row_new.category
                        \/ row_old.description # row_new.description
             written == IF changed
                        THEN update_transaction_fields(rows, row_new.transaction_id,
                                 row_new.category, row_new.card_name, row_new.description)
                        ELSE rows
         IN  salvar_compras(written, base, novo, k + 1)

\* A run of the card page with "Salvar alteracoes" of one of its two
\* editors pressed: the run draws the page from the rows it loaded, with
\* the slider where it was, and then writes the changed purchases; it does
\* not rerun, so the frames on the page are those of before the write.  The
\* editors lock every column but Cartao, Categoria and Descricao (and, in
\* the editor of the active purchases, Data da compra, which is not read).
SalvarAlteracoesCartao(df, t, novo) ==
    LET dfc == df_cartao_of(df)
        exp == expand_installments(dfc, due_day)
        compras == build_purchase_overview(exp, t)
    IN  /\ pagina = "Cartao de Credito"
        /\ dfc # <<>>
        /\ ~expand_installments_raises(dfc, due_day)
        /\ Len(novo) = Len(compras)
        /\ \A k \in 1..Len(novo) :
               novo[k] = [compras[k] EXCEPT !.card_name = novo[k].card_name,
                                            !.category = novo[k].category,
                                            !.description = novo[k].description]
        /\ DrawPaginaCartao(df, due_day, t, FALSE)
        /\ transactions' = salvar_compras(transactions, compras, novo, 1)

(***************************************************************************)
(* src/Controle.py: main, the editor of "Ultimos lancamentos"              *)
(***************************************************************************)
\* The digits of a natural number.
RECURSIVE DigitsOf(_)
DigitsOf(n) ==
    IF n < 10 THEN <<DigitChars[n + 1]>>
    ELSE DigitsOf(n \div 10) \o <<DigitChars[(n % 10) + 1]>>

\* The thousands of the format "," grouping, written with "." after the
\* replacements.
RECURSIVE group_thousands(_)
group_thousands(ds) ==
    IF Len(ds) <= 3 THEN ds
    ELSE group_thousands(SubSeq(ds, 1, Len(ds) - 3)) \o <<".">>
             \o SubSeq(ds, Len(ds) - 2, Len(ds))

\* f"{float(v):,.2f}".replace(",", "X").replace(".", ",").replace("X", ".")
format_valor(v) ==
    LET a == Abs(v)
        sign == IF v < 0 THEN <<"-">> ELSE <<>>
    IN  sign \o group_thousands(DigitsOf(a \div 100)) \o <<",">>
             \o <<DigitChars[((a % 100) \div 10) + 1], DigitChars[(a % 10) + 1]>>

\* get_last_n(df_base, tipo, n): the first n rows of a type, most recent
\* first (df is already in that order).
UltimosLancamentos == 20
get_last_n(df_base, tipo, n) ==
    LET is_tipo(r) == r.type = tipo
        df_tipo == SelectSeq(df_base, is_tipo)
    IN  SubSeq(df_tipo, 1, Min(n, Len(df_tipo)))

df_sorted_of(df) ==
    get_last_n(df, "entrada", UltimosLancamentos)
        \o get_last_n(df, "investimento", UltimosLancamentos)
        \o get_last_n(df, "saida", UltimosLancamentos)

\* df_edit: the columns under their names on the screen, Valor as text.
df_edit_of(df_sorted) ==
    [i \in 1..Len(df_sorted) |->
        [ID        |-> df_sorted[i].id,
         Tipo      |-> df_sorted[i].type,
         Categoria |-> df_sorted[i].category,
         Data      |-> df_sorted[i].date,
         Valor     |-> format_valor(df_sorted[i].amount),
         Forma     |-> df_sorted[i].payment_type,
         Cartao    |-> df_sorted[i].card_name,
         Parcelas  |-> df_sorted[i].installments,
         Descricao |-> df_sorted[i].description]]

\* to_update: the columns back under the names of the table, the date
\* through pd.to_datetime(...).dt.date, Valor through parse_brl_to_float.
to_update_of(edited_df) ==
    [i \in 1..Len(edited_df) |->
        [id           |-> edited_df[i].ID,
         type         |-> edited_df[i].Tipo,
         category     |-> edited_df[i].Categoria,
         date         |-> dt_date(to_datetime(edited_df[i].Data)),
         amount       |-> parse_brl_to_float(edited_df[i].Valor),
         payment_type |-> edited_df[i].Forma,
         card_name    |-> edited_df[i].Cartao,
         installments |-> edited_df[i].Parcelas,
         description  |-> edited_df[i].Descricao]]

\* for _, row in to_update.iterrows(): UPDATE transactions SET type,
\* category, date, amount, payment_type, card_name, installments,
\* description WHERE id = row["id"].
update_rows(rows, to_update) ==
    [i \in 1..Len(rows) |->
        IF \E j \in 1..Len(to_update) : to_update[j].id = rows[i].id
        THEN to_update[CHOOSE j \in 1..Len(to_update) : to_update[j].id = rows[i].id]
        ELSE rows[i]]

\* A run of main on the Dashboard with "Habilitar edicao dos ultimos
\* lancamentos" checked and "Salvar alteracoes" pressed: df is what
\* load_data(user_id) returned and edited_df what the editor returned, the
\* rows of df_edit with the cells the user changed (ID is locked).  Every
\* row of the editor is written, then st.rerun() draws the Dashboard.
SalvarAlteracoes(df, edited_df) ==
    LET df_sorted == df_sorted_of(df)
        df_edit == df_edit_of(df_sorted)
    IN  /\ pagina = "Dashboard"
        /\ df # <<>>
        /\ df_sorted # <<>>
        /\ Len(edited_df) = Len(df_edit)
        /\ \A i \in 1..Len(df_edit) : edited_df[i].ID = df_edit[i].ID
        /\ transactions' = update_rows(transactions, to_update_of(edited_df))
        /\ pagina' = "Dashboard"
        /\ st_error' = ""
        /\ expanded' = <<>>
        /\ summary' = <<0, 0, 0>>
        /\ summary_today' = NoDate
        /\ overview' = <<>>
        /\ overview_today' = NoDate
        /\ exception' = "none"
        /\ df_cartao' = <<>>
        /\ due_day' = DefaultDueDay
        /\ resumo' = resumo_of(transactions', MesDeReferencia)
        /\ read' = read_of(session_state.user_id, transactions')
        /\ session_kept

(***************************************************************************)
(* src/Consulta_Tabelas.py                                                 *)
(***************************************************************************)
\* A row of table controle or investimentos: id, tipo, categoria, data,
\* valor, descricao, and user_id, the user whose entry the row is, whether
\* or not the table has such a column.  "Todas" and Todos are the first
\* options of the select boxes; NoTipo is tipo = None.
Todas == "Todas"
Todos == 0
NoTipo == "None"

tabela_of(aba) == IF aba \in {"Entradas", "Saidas"} THEN "controle" ELSE "investimentos"
tipo_of(aba) ==
    IF aba = "Entradas" THEN "Entrada" ELSE IF aba = "Saidas" THEN "Saida" ELSE NoTipo

\* The clause "tipo = %s", which all the queries of the page start with.
tipo_clause(tabela, tipo) ==
    IF tabela = "controle" /\ tipo # NoTipo THEN <<[col |-> "tipo", param |-> tipo]>> ELSE <<>>

\* montar_query: the table and the clauses of WHERE, in the order of the
\* code.  No clause names the user.
montar_query(tabela, tipo, categoria, ano, mes, dia, texto) ==
    [tabela |-> tabela,
     where |-> tipo_clause(tabela, tipo)
        \o (IF categoria # "" /\ categoria # Todas
            THEN <<[col |-> "categoria", param |-> categoria]>> ELSE <<>>)
        \o (IF ano # Todos THEN <<[col |-> "ano", param |-> ano]>> ELSE <<>>)
        \o (IF mes # Todos THEN <<[col |-> "mes", param |-> mes]>> ELSE <<>>)
        \o (IF dia # Todos THEN <<[col |-> "dia", param |-> dia]>> ELSE <<>>)
        \o (IF texto # <<>> THEN <<[col |-> "descricao", param |-> lower(texto)]>> ELSE <<>>)]

\* LOWER(descricao) LIKE '%texto%'
like(descricao, texto) ==
    \E i \in 1..(Len(descricao) - Len(texto) + 1) :
        SubSeq(lower(descricao), i, i + Len(texto) - 1) = texto

clause_holds(r, c) ==
    CASE c.col = "tipo" -> r.tipo = c.param
      [] c.col = "categoria" -> r.categoria = c.param
      [] c.col = "ano" -> r.data.year = c.param
      [] c.col = "mes" -> r.data.month = c.param
      [] c.col = "dia" -> r.data.day = c.param
      [] c.col = "descricao" -> like(r.descricao, c.param)
      [] OTHER -> FALSE

where_holds(r, where) == \A k \in 1..Len(where) : clause_holds(r, where[k])

\* pd.read_sql(query, conn): the rows of the table the clauses keep,
\* ORDER BY data DESC, id DESC.
read_sql(tables, query) ==
    LET rows == SelectSeq(tables[query.tabela], LAMBDA r : where_holds(r, query.where))
        n == Len(rows)
        before(a, b) == DateLT(b.data, a.data) \/ (a.data = b.data /\ a.id > b.id)
        rank(i) == 1 + Cardinality({j \in 1..n : before(rows[j], rows[i])})
    IN  [k \in 1..n |-> rows[CHOOSE i \in 1..n : rank(i) = k]]

\* carregar_opcoes: the categories and the years of the rows of the tab,
\* and the rows the two queries went through.
carregar_opcoes(tables, tabela, tipo) ==
    LET rows == read_sql(tables, [tabela |-> tabela, where |-> tipo_clause(tabela, tipo)])
    IN  [categorias |-> {rows[i].categoria : i \in 1..Len(rows)},
         anos |-> {rows[i].data.year : i \in 1..Len(rows)},
         rows |-> rows_set(rows)]

\* carregar_dias: the days with a row in the year and month chosen.
carregar_dias(tables, tabela, tipo, ano, mes, categoria) ==
    IF ano = Todos \/ mes = Todos THEN {}
    ELSE LET q == montar_query(tabela, tipo, categoria, ano, mes, Todos, <<>>)
             rows == read_sql(tables, q)
         IN  {rows[i].data.day : i \in 1..Len(rows)}

\* pagina_consulta_tabelas: the rows the page shows data of.  The select
\* boxes show the options of carregar_opcoes; with "Aplicar filtros"
\* pressed the page shows the rows of montar_query and their totals.
pagina_consulta_tabelas(tables, aba, submitted, categoria, ano, mes, dia, texto) ==
    LET tabela == tabela_of(aba)
        tipo == tipo_of(aba)
        query == montar_query(tabela, tipo, categoria, ano, mes, dia, texto)
    IN  carregar_opcoes(tables, tabela, tipo).rows
            \cup (IF submitted THEN rows_set(read_sql(tables, query)) ELSE {})

(***************************************************************************)
(* src/Controle.py: main, page navigation                                  *)
(***************************************************************************)
\* A run of main with "Dashboard" selected in the sidebar radio and nothing
\* submitted: the frames of the card page are not built.
Dashboard ==
    /\ pagina # "Dashboard"
    /\ pagina' = "Dashboard"
    /\ st_error' = ""
    /\ expanded' = <<>>
    /\ summary' = <<0, 0, 0>>
    /\ summary_today' = NoDate
    /\ overview' = <<>>
    /\ overview_today' = NoDate
    /\ exception' = "none"
    /\ df_cartao' = <<>>
    /\ due_day' = DefaultDueDay
    /\ resumo' = resumo_of(transactions, MesDeReferencia)
    /\ read' = read_of(session_state.user_id, transactions)
    /\ session_kept
    /\ UNCHANGED transactions

(***************************************************************************)
(* Specifications                                                          *)
(***************************************************************************)
\* One account, its user logged in, and nothing in the tables of "Tabelas".
OneUser ==
    /\ app_users = <<UserA>>
    /\ email_unique = TRUE
    /\ create_user_calls = [s \in Sessions |-> IdleCall]
    /\ session_state = session_after_login([user_id |-> NoUserId], [id |-> UserA.id, email |-> UserA.email])
    /\ read = read_of(UserA.id, transactions)
    /\ tabelas = [controle |-> <<>>, investimentos |-> <<>>]

NothingDrawn ==
    /\ due_day = DefaultDueDay
    /\ expanded = <<>>
    /\ summary = <<0, 0, 0>>
    /\ summary_today = NoDate
    /\ overview = <<>>
    /\ overview_today = NoDate
    /\ exception = "none"
    /\ pagina = "Dashboard"
    /\ st_error = ""
    /\ df_cartao = <<>>
    /\ resumo = resumo_of(transactions, MesDeReferencia)
    /\ OneUser

\* A session of one user on an empty table.  The form is part of the
\* Dashboard; the card page is reached from the Dashboard, on any day of
\* the session and with the slider at any of the session's positions.
Init ==
    /\ transactions = <<>>
    /\ NothingDrawn

Submit ==
    /\ pagina = "Dashboard"
    /\ Len(transactions) < MaxTx
    /\ \E t_type \in TTypes, payment_type \in PaymentTypes, category \in FormCategories,
          d \in FormDates, valor_str \in FormValores, n \in FormInstallments,
          card \in CardNames :
           NovoLancamento(t_type, payment_type, category, d, valor_str, n, card)

DrawCard ==
    /\ pagina = "Dashboard"
    /\ \E df \in load_data(transactions), d \in SessionDueDays, t \in SessionTodays,
          midnight \in BOOLEAN :
           PaginaCartao(df, d, t, midnight)

Next == Submit \/ DrawCard \/ Dashboard

Spec == Init /\ [][Next]_vars

\* The card page drawn over one stored purchase, for every position of the
\* slider.
InitPurchase ==
    /\ transactions \in {<<tx>> : tx \in StoredPurchases}
    /\ NothingDrawn

DrawPurchase ==
    /\ pagina = "Dashboard"
    /\ \E df \in load_data(transactions), d \in SliderDays :
           PaginaCartao(df, d, PurchaseToday, FALSE)

NextPurchase == DrawPurchase

SpecPurchase == InitPurchase /\ [][NextPurchase]_vars

\* The two functions of the card page applied to a frame of installments,
\* the empty frame among them, on any day of a session.  pagina tells
\* whether a function has been applied.
FramePurchases ==
    {tx \in StoredPurchases :
        /\ tx.date \in FormDates
        /\ tx.installments \in FormInstallments}
InstallmentFrames ==
    {<<>>} \cup {expand_installments(<<tx>>, d) : tx \in FramePurchases, d \in SessionDueDays}

InitFrames ==
    /\ transactions = <<>>
    /\ due_day = DefaultDueDay
    /\ expanded \in InstallmentFrames
    /\ summary = <<0, 0, 0>>
    /\ summary_today = NoDate
    /\ overview = <<>>
    /\ overview_today = NoDate
    /\ exception = "none"
    /\ pagina = "Dashboard"
    /\ st_error = ""
    /\ df_cartao = <<>>
    /\ resumo = resumo_of(transactions, MesDeReferencia)
    /\ OneUser

ApplySummary ==
    \E t \in SessionTodays :
        /\ pagina' = "Cartao de Credito"
        /\ exception' = compute_card_summary_error(expanded)
        /\ IF compute_card_summary_error(expanded) = "none"
           THEN /\ summary' = compute_card_summary(expanded, t)
                /\ summary_today' = (IF expanded = <<>> THEN NoDate ELSE t)
           ELSE UNCHANGED <<summary, summary_today>>
        /\ expanded' = compute_card_summary_expanded_after(expanded, t)
        /\ UNCHANGED <<transactions, due_day, overview, overview_today, st_error, df_cartao, resumo,
                       read>>
        /\ session_kept

ApplyOverview ==
    \E t \in SessionTodays :
        /\ pagina' = "Cartao de Credito"
        /\ exception' = build_purchase_overview_error(expanded)
        /\ IF build_purchase_overview_error(expanded) = "none"
           THEN /\ overview' = build_purchase_overview(expanded, t)
                /\ overview_today' = (IF expanded = <<>> THEN NoDate ELSE t)
           ELSE UNCHANGED <<overview, overview_today>>
        /\ expanded' = build_purchase_overview_expanded_after(expanded, t)
        /\ UNCHANGED <<transactions, due_day, summary, summary_today, st_error, df_cartao, resumo,
                       read>>
        /\ session_kept

NextFrames == ApplySummary \/ ApplyOverview

SpecFrames == InitFrames /\ [][NextFrames]_vars

\* The three functions of the card page applied in the order of the page:
\* expand_installments to a frame of card expenses, then the other two to
\* the frame it returned.
FrameInputs == {<<>>} \cup {<<tx>> : tx \in FramePurchases}

InitPure ==
    /\ transactions = <<>>
    /\ due_day = DefaultDueDay
    /\ df_cartao \in FrameInputs
    /\ expanded = <<>>
    /\ summary = <<0, 0, 0>>
    /\ summary_today = NoDate
    /\ overview = <<>>
    /\ overview_today = NoDate
    /\ exception = "none"
    /\ pagina = "Dashboard"
    /\ st_error = ""
    /\ resumo = resumo_of(transactions, MesDeReferencia)
    /\ OneUser

ApplyExpand ==
    \E d \in SessionDueDays :
        /\ pagina = "Dashboard"
        /\ pagina' = "Cartao de Credito"
        /\ due_day' = d
        /\ exception' = expand_installments_error(df_cartao, d)
        /\ df_cartao' = expand_installments_df_after(df_cartao, d)
        /\ expanded' = (IF expand_installments_raises(df_cartao, d)
                        THEN expanded ELSE expand_installments(df_cartao, d))
        /\ UNCHANGED <<transactions, summary, summary_today, overview, overview_today, st_error,
                       resumo, read>>
        /\ session_kept

NextPure == ApplyExpand \/ ApplySummary \/ ApplyOverview

SpecPure == InitPure /\ [][NextPure]_vars

\* The card page of one stored purchase drawn day after day, the slider
\* left where the first run put it: the clock is the only thing that moves.
\* The days span every due date of the purchases of the model.
DaysStart == Date(2023, 12, 1)
DaysEnd == Date(2024, 7, 1)

InitDays ==
    /\ transactions \in FrameInputs \ {<<>>}
    /\ NothingDrawn

FirstDay ==
    /\ pagina = "Dashboard"
    /\ \E df \in load_data(transactions), d \in SessionDueDays :
           PaginaCartao(df, d, DaysStart, FALSE)

AdvanceDay ==
    /\ pagina = "Cartao de Credito"
    /\ DateLT(overview_today, DaysEnd)
    /\ \E df \in load_data(transactions) :
           PaginaCartao(df, due_day, NextDay(overview_today), FALSE)

NextDays == FirstDay \/ AdvanceDay

SpecDays == InitDays /\ [][NextDays]_vars

\* A step of NextDays as the clock and the page show it: where a day is
\* left in the span, the page is drawn on the next one.
DayGoesBy ==
    /\ pagina = "Dashboard" \/ DateLT(overview_today, DaysEnd)
    /\ pagina' = "Cartao de Credito"
    /\ overview_today' = (IF pagina = "Dashboard" THEN DaysStart ELSE NextDay(overview_today))

\* Days go by: the page is drawn on every day up to the last of the span.
SpecDaysFair == SpecDays /\ WF_<<pagina, overview_today>>(DayGoesBy)

\* The Dashboard drawn over the stored rows of one user, incomes, expenses
\* of both payment types and investments of two months, with the date input
\* "Mes de referencia" moved from month to month.
SummaryCategories == {CategoriasOrdenadas[k] : k \in 1..Len(CategoriasOrdenadas)}
SummaryRows ==
    {[id |-> 0, type |-> "saida", category |-> c, date |-> dt,
      amount |-> (IF pt = CartaoDeCredito THEN 2000 ELSE 1000),
      payment_type |-> pt, card_name |-> (IF pt = CartaoDeCredito THEN "Visa" ELSE ""),
      installments |-> 1, description |-> ""] :
        c \in SummaryCategories, dt \in FormDates, pt \in PaymentTypes}
    \cup
    {[id |-> 0, type |-> ty, category |-> "Mercado", date |-> Date(2023, 12, 3), amount |-> 5000,
      payment_type |-> "Conta", card_name |-> "", installments |-> 1, description |-> ""] :
        ty \in {"entrada", "investimento"}}

SummaryTables ==
    UNION {{[i \in 1..n |-> [f[i] EXCEPT !.id = i]] : f \in [1..n -> SummaryRows]} : n \in 0..MaxTx}

RefDates == {Date(2023, 11, 30), Date(2023, 12, 1), Date(2024, 1, 31)}

InitSummary ==
    /\ transactions \in SummaryTables
    /\ NothingDrawn

\* main: a run of the Dashboard with the date input at ref_date.
MesDeReferenciaChange ==
    \E df \in load_data(transactions), ref_date \in RefDates :
        /\ pagina = "Dashboard"
        /\ resumo' = compute_summary(df, ref_date)
        /\ read' = read_of(session_state.user_id, df)
        /\ session_kept
        /\ UNCHANGED <<transactions, due_day, expanded, summary, summary_today, overview,
                       overview_today, exception, pagina, st_error, df_cartao>>

NextSummary == MesDeReferenciaChange

SpecSummary == InitSummary /\ [][NextSummary]_vars

\* One browser session on the tables of two users: log-in, log-out,
\* sign-up and the four pages of the sidebar.
SessionRows ==
    {[id |-> 0, user_id |-> u, type |-> "saida", category |-> "Mercado",
      date |-> Date(2023, 12, 3), amount |-> 1000, payment_type |-> CartaoDeCredito,
      card_name |-> "Visa", installments |-> 1, description |-> ""] :
        u \in {UserA.id, UserB.id}}
SessionTables ==
    UNION {{[i \in 1..n |-> [f[i] EXCEPT !.id = i]] : f \in [1..n -> SessionRows]} : n \in 0..MaxTx}

ControleRows ==
    {[id |-> 0, user_id |-> u, tipo |-> "Saida", categoria |-> "Mercado",
      data |-> Date(2024, 1, 31), valor |-> 1000, descricao |-> <<"M", "e", "r">>] :
        u \in {UserA.id, UserB.id}}
SessionTabelas ==
    {[controle |-> c, investimentos |-> <<>>] :
        c \in {<<>>} \cup {<<[r EXCEPT !.id = 1]>> : r \in ControleRows}}

LoginEmails == {<<>>, EmailA, <<" ", "B", "@", "X">>, <<"c", "@", "x">>}
LoginSenhas == {Senha1, Senha2}
SignupEmails == {<<"C", "@", "x", " ">>, EmailA}
SignupSenhas == {<<Senha1, Senha1>>, <<Senha1, Senha2>>, <<<<"1">>, <<"1">>>>}
Abas == {"Entradas", "Saidas", "Investimentos"}
FiltroAnos == {Todos, 2024}
FiltroMeses == {Todos, 1}
FiltroTextos == {<<>>, <<"M">>}

InitSession ==
    /\ transactions \in SessionTables
    /\ app_users = <<UserA, UserB>>
    /\ email_unique \in BOOLEAN
    /\ create_user_calls = [s \in Sessions |-> IdleCall]
    /\ session_state = [user |-> NoUser, user_id |-> NoUserId, email |-> <<>>]
    /\ read = NoRead
    /\ tabelas \in SessionTabelas
    /\ due_day = DefaultDueDay
    /\ expanded = <<>>
    /\ summary = <<0, 0, 0>>
    /\ summary_today = NoDate
    /\ overview = <<>>
    /\ overview_today = NoDate
    /\ exception = "none"
    /\ pagina = "Entrar"
    /\ st_error = ""
    /\ df_cartao = <<>>
    /\ resumo = NoResumo

\* A run that draws no frame of the card page.
CardFramesDropped ==
    /\ due_day' = DefaultDueDay
    /\ expanded' = <<>>
    /\ summary' = <<0, 0, 0>>
    /\ summary_today' = NoDate
    /\ overview' = <<>>
    /\ overview_today' = NoDate
    /\ exception' = "none"
    /\ df_cartao' = <<>>

\* main: login_screen returned None and st.stop() ended the run.
login_screen_drawn(msg) ==
    /\ pagina' = "Entrar"
    /\ st_error' = msg
    /\ resumo' = NoResumo
    /\ read' = NoRead
    /\ CardFramesDropped

\* main past the log-in screen: df = load_data(st.session_state["user_id"]).
df_of_session(ss) == load_data(select_user_id(transactions, ss.user_id))

\* main: the Dashboard drawn in the session ss.
dashboard_drawn(ss) ==
    \E df \in df_of_session(ss) :
        /\ pagina' = "Dashboard"
        /\ st_error' = ""
        /\ resumo' = compute_summary(df, MesDeReferencia)
        /\ read' = read_of(ss.user_id, df)
        /\ CardFramesDropped

\* login_screen: "Entrar" pressed.  A login that succeeds writes the session
\* and reruns, which draws the Dashboard.
Entrar(email, password) ==
    /\ session_state.user = NoUser
    /\ \E user \in authenticate_user(app_users, email, password) :
           IF user # NoUser
           THEN /\ session_state' = session_after_login(session_state, user)
                /\ dashboard_drawn(session_state')
           ELSE /\ UNCHANGED session_state
                /\ login_screen_drawn(EmailOuSenhaInvalidos)
    /\ UNCHANGED <<transactions, app_users, email_unique, create_user_calls, tabelas>>

\* login_screen: "Sair" pressed; the rerun draws the log-in screen.
Sair ==
    /\ session_state.user # NoUser
    /\ session_state' = session_after_logout(session_state)
    /\ login_screen_drawn("")
    /\ UNCHANGED <<transactions, app_users, email_unique, create_user_calls, tabelas>>

\* login_screen: "Criar Conta" pressed, no other call of create_user running.
CriarConta(new_email, new_pass, confirm_pass) ==
    LET r == create_user(app_users, new_email, new_pass)
    IN  /\ session_state.user = NoUser
        /\ Len(app_users) < MaxUsers
        /\ IF signup_check(new_pass, confirm_pass) # ""
           THEN /\ UNCHANGED app_users
                /\ login_screen_drawn(IF signup_check(new_pass, confirm_pass) = SenhaCurta
                                      THEN "" ELSE signup_check(new_pass, confirm_pass))
           ELSE /\ app_users' = r.app_users
                /\ login_screen_drawn(IF r.user_id = NoUserId THEN EmailJaCadastrado ELSE "")
        /\ UNCHANGED <<transactions, email_unique, create_user_calls, session_state, tabelas>>

\* main: "Dashboard" selected.
PaginaDashboard ==
    /\ session_state.user # NoUser
    /\ dashboard_drawn(session_state)
    /\ session_kept
    /\ UNCHANGED transactions

\* main: "Analises" selected, render_analises(df).
PaginaAnalises ==
    /\ session_state.user # NoUser
    /\ \E df \in df_of_session(session_state) :
           /\ pagina' = "Analises"
           /\ st_error' = ""
           /\ resumo' = NoResumo
           /\ read' = read_of(session_state.user_id, df)
           /\ CardFramesDropped
    /\ session_kept
    /\ UNCHANGED transactions

\* main: "Cartao de Credito" selected, pagina_cartao(df).
PaginaCartaoSession ==
    /\ session_state.user # NoUser
    /\ \E df \in df_of_session(session_state), d \in SessionDueDays :
           PaginaCartao(df, d, PurchaseToday, FALSE)

\* main: "Tabelas" selected, pagina_consulta_tabelas(get_connection), with
\* the filters of the form and with or without "Aplicar filtros" pressed.
PaginaTabelas ==
    /\ session_state.user # NoUser
    /\ \E df \in df_of_session(session_state), aba \in Abas, submitted \in BOOLEAN,
          ano \in FiltroAnos, mes \in FiltroMeses, texto \in FiltroTextos :
        \E categoria \in {Todas} \cup carregar_opcoes(tabelas, tabela_of(aba), tipo_of(aba)).categorias,
           dia \in {Todos} \cup carregar_dias(tabelas, tabela_of(aba), tipo_of(aba), ano, mes, Todas) :
           /\ pagina' = "Tabelas"
           /\ st_error' = ""
           /\ resumo' = NoResumo
           /\ read' = [user_id |-> session_state.user_id,
                       df |-> rows_set(df),
                       shown |-> pagina_consulta_tabelas(tabelas, aba, submitted,
                                                         categoria, ano, mes, dia, texto)]
           /\ CardFramesDropped
    /\ session_kept
    /\ UNCHANGED transactions

NextSession ==
    \/ \E email \in LoginEmails, password \in LoginSenhas : Entrar(email, password)
    \/ Sair
    \/ \E new_email \in SignupEmails, p \in SignupSenhas : CriarConta(new_email, p[1], p[2])
    \/ PaginaDashboard
    \/ PaginaAnalises
    \/ PaginaCartaoSession
    \/ PaginaTabelas

SpecSession == InitSession /\ [][NextSession]_vars

\* Calls of create_user from several browser sessions at the log-in screen,
\* each call a SELECT, an INSERT and a commit on a connection of its own.
InitSignup ==
    /\ transactions = <<>>
    /\ app_users \in {<<>>, <<UserA>>}
    /\ email_unique \in BOOLEAN
    /\ create_user_calls = [s \in Sessions |-> IdleCall]
    /\ session_state = [user |-> NoUser, user_id |-> NoUserId, email |-> <<>>]
    /\ read = NoRead
    /\ tabelas = [controle |-> <<>>, investimentos |-> <<>>]
    /\ due_day = DefaultDueDay
    /\ expanded = <<>>
    /\ summary = <<0, 0, 0>>
    /\ summary_today = NoDate
    /\ overview = <<>>
    /\ overview_today = NoDate
    /\ exception = "none"
    /\ pagina = "Entrar"
    /\ st_error = ""
    /\ df_cartao = <<>>
    /\ resumo = NoResumo

\* The rows other calls have inserted and not yet committed.
pending_rows(s) ==
    {create_user_calls[o].row : o \in {q \in Sessions \ {s} : create_user_calls[q].pc = "commit"}}

\* The ids the sequence of app_users has given so far.
ids_given ==
    {app_users[i].id : i \in 1..Len(app_users)}
        \cup {create_user_calls[o].row.id : o \in Sessions}

signup_unchanged ==
    UNCHANGED <<transactions, due_day, expanded, summary, summary_today, overview,
                overview_today, exception, pagina, st_error, df_cartao, resumo,
                email_unique, session_state, read, tabelas>>

\* login_screen: "Criar Conta" pressed in session s; create_user is entered
\* when the two passwords pass the checks.
CriarContaCall(s, new_email, new_pass, confirm_pass) ==
    /\ create_user_calls[s].pc \in {"idle", "returned", "raised"}
    /\ Len(app_users) + Cardinality(pending_rows(s)) < MaxUsers
    /\ create_user_calls' =
           [create_user_calls EXCEPT ![s] =
               IF signup_check(new_pass, confirm_pass) # ""
               THEN [IdleCall EXCEPT !.message = signup_check(new_pass, confirm_pass)]
               ELSE [IdleCall EXCEPT !.pc = "select", !.email = new_email,
                                     !.hashed = hash_password(new_pass)]]
    /\ UNCHANGED app_users
    /\ signup_unchanged

\* create_user: SELECT id FROM app_users WHERE email = %s, which sees the
\* rows that are committed; the call returns None when there is one.
SelectExisting(s) ==
    /\ create_user_calls[s].pc = "select"
    /\ create_user_calls' =
           [create_user_calls EXCEPT ![s] =
               IF existing_of(app_users, create_user_calls[s].email)
               THEN [@ EXCEPT !.pc = "returned", !.user_id = NoUserId,
                              !.message = EmailJaCadastrado]
               ELSE [@ EXCEPT !.pc = "insert"]]
    /\ UNCHANGED app_users
    /\ signup_unchanged

\* create_user: INSERT INTO app_users ... RETURNING id.  With a unique index
\* on email the statement waits for a call that has inserted the e-mail and
\* not committed, and raises when a committed row has it.
InsertUser(s) ==
    LET c == create_user_calls[s]
        row == inserted_row(ids_given, c.email, c.hashed)
    IN  /\ c.pc = "insert"
        /\ email_unique => \A r \in pending_rows(s) : r.email # row.email
        /\ create_user_calls' =
               [create_user_calls EXCEPT ![s] =
                   IF email_unique /\ existing_of(app_users, c.email)
                   THEN [@ EXCEPT !.pc = "raised"]
                   ELSE [@ EXCEPT !.pc = "commit", !.row = row]]
        /\ UNCHANGED app_users
        /\ signup_unchanged

\* create_user: conn.commit() and return user_id.
CommitUser(s) ==
    /\ create_user_calls[s].pc = "commit"
    /\ app_users' = Append(app_users, create_user_calls[s].row)
    /\ create_user_calls' =
           [create_user_calls EXCEPT ![s] =
               [@ EXCEPT !.pc = "returned", !.user_id = create_user_calls[s].row.id,
                         !.row = NoRow, !.message = ContaCriada]]
    /\ signup_unchanged

NextSignup ==
    \/ \E s \in Sessions, new_email \in SignupEmails, p \in SignupSenhas :
           CriarContaCall(s, new_email, p[1], p[2])
    \/ \E s \in Sessions : SelectExisting(s)
    \/ \E s \in Sessions : InsertUser(s)
    \/ \E s \in Sessions : CommitUser(s)

SpecSignup == InitSignup /\ [][NextSignup]_vars

\* A session in which the stored rows are edited: purchases are submitted
\* on the Dashboard, rewritten in its editor, and renamed in the editors of
\* the card page.  A save carries at most one changed cell: any other
\* edited grid is what a sequence of such saves leaves.
MaxEditTx == 1
EditToday == Date(2024, 1, 10)
EditValores ==
    { <<"a", "b", "c">>,
      <<"-", "5", ",", "0", "0">>,
      <<"1", "0", ",", "0", "0">> }
EditParcelas == {0, 1}
EditCategorias == {"Mercado", "Lazer"}

EditedGrids(df_edit) ==
    {df_edit}
        \cup {[df_edit EXCEPT ![i].Tipo = v] : i \in 1..Len(df_edit), v \in TTypes}
        \cup {[df_edit EXCEPT ![i].Categoria = v] : i \in 1..Len(df_edit), v \in EditCategorias}
        \cup {[df_edit EXCEPT ![i].Data = v] : i \in 1..Len(df_edit), v \in FormDates}
        \cup {[df_edit EXCEPT ![i].Valor = v] : i \in 1..Len(df_edit), v \in EditValores}
        \cup {[df_edit EXCEPT ![i].Parcelas = v] : i \in 1..Len(df_edit), v \in EditParcelas}

EditedCompras(compras) ==
    {compras}
        \cup {[compras EXCEPT ![k].category = v] : k \in 1..Len(compras), v \in EditCategorias}

InitEdit ==
    /\ transactions = <<>>
    /\ NothingDrawn

SubmitEdit ==
    /\ pagina = "Dashboard"
    /\ Len(transactions) < MaxEditTx
    /\ NovoLancamento("saida", CartaoDeCredito, "Mercado", Date(2023, 12, 3),
                      <<"1", "0", ",", "0", "0">>, 1, "Visa")

EditorSave ==
    \E df \in load_data(transactions) :
        \E edited_df \in EditedGrids(df_edit_of(df_sorted_of(df))) :
            SalvarAlteracoes(df, edited_df)

DrawCardEdit ==
    /\ pagina = "Dashboard"
    /\ \E df \in load_data(transactions) :
           PaginaCartao(df, DefaultDueDay, EditToday, FALSE)

CardSave ==
    \E df \in load_data(transactions) :
        \E novo \in EditedCompras(build_purchase_overview(
                        expand_installments(df_cartao_of(df), due_day), EditToday)) :
            SalvarAlteracoesCartao(df, EditToday, novo)

NextEdit == SubmitEdit \/ EditorSave \/ DrawCardEdit \/ CardSave \/ Dashboard

SpecEdit == InitEdit /\ [][NextEdit]_vars

(***************************************************************************)
(* Properties                                                              *)
(***************************************************************************)
\* The last run drew the card page to its end.
CardDrawn == pagina = "Cartao de Credito" /\ exception = "none"

\* The stored expenses paid by credit card.
CardTx ==
    {transactions[i] : i \in {j \in 1..Len(transactions) :
        /\ transactions[j].type = "saida"
        /\ transactions[j].payment_type = CartaoDeCredito}}

\* The installments of expanded that carry transaction id tid, in order.
RowsOf(tid) ==
    LET has_id(r) == r.transaction_id = tid
    IN  SelectSeq(expanded, has_id)

\* An order-preserving number of a date, for comparing dates in properties.
DayKey(d) == (d.year * 12 + d.month) * 31 + d.day
Before(a, b) == DayKey(a) < DayKey(b)

\* Day dd of the month of p, and of the calendar month after it.
SameMonth(p, dd) == Date(p.year, p.month, dd)
FollowingMonth(p, dd) ==
    IF p.month = 12 THEN Date(p.year + 1, 1, dd) ELSE Date(p.year, p.month + 1, dd)

\* C1: for every due day of the slider and every purchase date, the first
\* installment of a purchase is due on the due day of the purchase's own
\* month when the purchase day is not after the due day, and on the due day
\* of the calendar month immediately following otherwise (December rolls to
\* January of the next year; purchase days 29 to 31 skip no month).
C1_FirstDueRule ==
    CardDrawn =>
        \A tx \in CardTx :
            LET rows == RowsOf(tx.id)
                firsts == {k \in 1..Len(rows) : rows[k].installment_no = 1}
            IN  /\ Cardinality(firsts) = 1
                /\ \A k \in firsts :
                       rows[k].due_date =
                           IF tx.date.day <= due_day
                           THEN SameMonth(tx.date, due_day)
                           ELSE FollowingMonth(tx.date, due_day)

\* A purchase of 31 January drawn with due day 28: first due 28 February.
C1_Witness ==
    /\ CardDrawn
    /\ due_day = 28
    /\ \E tx \in CardTx :
           /\ tx.date = Date(2024, 1, 31)
           /\ \E k \in 1..Len(expanded) :
                  /\ expanded[k].installment_no = 1
                  /\ expanded[k].due_date = Date(2024, 2, 28)

\* C2: a transaction with installment count N >= 1 has exactly N rows in
\* expanded, numbered 1..N in the order they were emitted, each with
\* total_installments = N.
C2_ExactlyNRows ==
    CardDrawn =>
        \A tx \in CardTx :
            tx.installments >= 1 =>
                LET rows == RowsOf(tx.id)
                IN  /\ Len(rows) = tx.installments
                    /\ \A k \in 1..Len(rows) :
                           /\ rows[k].installment_no = k
                           /\ rows[k].total_installments = tx.installments

C2_Witness ==
    /\ CardDrawn
    /\ \E tx \in CardTx : tx.installments = 3 /\ Len(RowsOf(tx.id)) = 3

\* b is the same day of the calendar month after the month of a.
OneMonthAfter(a, b) ==
    /\ b.day = a.day
    /\ \/ a.month < 12 /\ b.month = a.month + 1 /\ b.year = a.year
       \/ a.month = 12 /\ b.month = 1 /\ b.year = a.year + 1

\* C3: within one purchase, each installment is due exactly one calendar
\* month after the previous one, strictly later, and every due date falls
\* on day due_day.
C3_MonthlySteps ==
    CardDrawn =>
        \A tx \in CardTx :
            LET rows == RowsOf(tx.id)
            IN  /\ \A k \in 1..Len(rows) : rows[k].due_date.day = due_day
                /\ \A k \in 1..Len(rows)-1 :
                       /\ OneMonthAfter(rows[k].due_date, rows[k+1].due_date)
                       /\ Before(rows[k].due_date, rows[k+1].due_date)

\* Three installments whose due dates run over the end of a year.
C3_Witness ==
    /\ CardDrawn
    /\ \E tx \in CardTx :
           LET rows == RowsOf(tx.id)
           IN  /\ Len(rows) = 3
               /\ rows[1].due_date.month = 12
               /\ rows[2].due_date.month = 1
               /\ rows[3].due_date.month = 2

\* v is the quotient a / n rounded to a nearest unit.
NearestQuotient(v, a, n) == 2 * Abs(n * v - a) <= n

\* The row of the overview for transaction id tid.
OverviewOf(tid) == {overview[i] : i \in {j \in 1..Len(overview) :
                                            overview[j].transaction_id = tid}}

\* C4: for a transaction with amount A and installment count N >= 1, each
\* installment's value is A / N (rounded to the nearest unit), the N values
\* sum to A up to that rounding (half a unit per installment), and so does
\* the overview's total_value = N x installment_value.
C4_ValuesReconstructAmount ==
    CardDrawn =>
        \A tx \in CardTx :
            tx.installments >= 1 =>
                LET rows == RowsOf(tx.id)
                    N == tx.installments
                IN  /\ \A k \in 1..Len(rows) :
                           NearestQuotient(rows[k].installment_value, tx.amount, N)
                    /\ 2 * Abs(SumValues(rows) - tx.amount) <= N
                    /\ \A o \in OverviewOf(tx.id) :
                           /\ o.total_value = N * rows[1].installment_value
                           /\ 2 * Abs(o.total_value - tx.amount) <= N

\* 2000 in three installments: the values sum to 2001.
C4_Witness ==
    /\ CardDrawn
    /\ \E tx \in CardTx :
           /\ tx.installments = 3
           /\ tx.amount = 2000
           /\ SumValues(RowsOf(tx.id)) = 2001
           /\ \E o \in OverviewOf(tx.id) : o.total_value = 2001

\* The rows of the overview, and the due dates of the installments of one.
OverviewRows == {overview[i] : i \in 1..Len(overview)}
DuesOf(o) ==
    {expanded[k].due_date : k \in {j \in 1..Len(expanded) :
                                       expanded[j].transaction_id = o.transaction_id}}
InstallmentsOf(o) ==
    {k \in 1..Len(expanded) : expanded[k].transaction_id = o.transaction_id}

\* C5: an installment is paid exactly when its due date is strictly before
\* today (one due today is pending): installments_paid of a purchase is the
\* number of its installments with due_date < today.
C5_PaidIsStrictlyBefore ==
    CardDrawn =>
        \A o \in OverviewRows :
            o.installments_paid =
                Cardinality({k \in InstallmentsOf(o) :
                                 Before(expanded[k].due_date, overview_today)})

\* A purchase with an installment due today that is not counted as paid,
\* after an earlier one that is.
C5_Witness ==
    /\ CardDrawn
    /\ \E o \in OverviewRows :
           /\ overview_today \in DuesOf(o)
           /\ o.installments_paid = 1
           /\ o.total_installments = 3

\* The stored transaction an overview row was built from.
TxOf(o) == CHOOSE tx \in CardTx : tx.id = o.transaction_id

\* C6: for every row of the overview, whatever the date read as today,
\* installments_paid + installments_remaining is the installment count of
\* the purchase: the row's total_installments, which is the number of
\* installments expanded for it and the count stored with the transaction.
C6_PaidPlusRemaining ==
    CardDrawn =>
        \A o \in OverviewRows :
            /\ o.installments_paid + o.installments_remaining = o.total_installments
            /\ o.installments_paid + o.installments_remaining =
                   Cardinality(InstallmentsOf(o))
            /\ TxOf(o).installments >= 1 =>
                   o.installments_paid + o.installments_remaining = TxOf(o).installments

C6_Witness ==
    /\ CardDrawn
    /\ \E o \in OverviewRows :
           /\ o.installments_paid = 2
           /\ o.installments_remaining = 1

\* C7: next_due is the earliest due date among the purchase's installments
\* with due_date >= today, and it is None exactly when
\* installments_remaining = 0.
C7_NextDue ==
    CardDrawn =>
        \A o \in OverviewRows :
            LET future == {d \in DuesOf(o) : ~Before(d, overview_today)}
            IN  /\ (o.next_due = NoDate) <=> (o.installments_remaining = 0)
                /\ future = {} => o.next_due = NoDate
                /\ future # {} =>
                       /\ o.next_due \in future
                       /\ \A e \in future : ~Before(e, o.next_due)

\* A purchase with one installment paid whose next one is due today.
C7_Witness ==
    /\ CardDrawn
    /\ \E o \in OverviewRows :
           /\ o.installments_paid = 1
           /\ o.next_due = overview_today
           /\ o.installments_remaining = 2

\* C8: a row of the overview is "concluida" exactly when the latest due
\* date of its installments is strictly before today and
\* installments_remaining is 0, and "ativa" otherwise; a purchase of one
\* installment is "ativa" on its due date and "concluida" on any later day.
C8_SettledStatus ==
    CardDrawn =>
        \A o \in OverviewRows :
            LET all_past == \A d \in DuesOf(o) : Before(d, overview_today)
            IN  /\ o.status \in {"ativa", "concluida"}
                /\ (o.status = "concluida") <=>
                       (all_past /\ o.installments_remaining = 0)
                /\ o.total_installments = 1 =>
                       /\ overview_today \in DuesOf(o) => o.status = "ativa"
                       /\ \A d \in DuesOf(o) :
                              Before(d, overview_today) => o.status = "concluida"

\* A purchase of one installment on the day after its due date.
C8_Witness ==
    /\ CardDrawn
    /\ \E o \in OverviewRows :
           /\ o.total_installments = 1
           /\ o.status = "concluida"
           /\ \E d \in DuesOf(o) : overview_today = NextDay(d)

\* C9: over the expansion of transactions of distinct ids the criteria of
\* a concluded purchase agree, for every date read as today:
\* installments_remaining = 0 iff the latest due date is before today iff
\* next_due is None.
C9_CriteriaAgree ==
    CardDrawn =>
        \A o \in OverviewRows :
            LET all_past == \A d \in DuesOf(o) : Before(d, overview_today)
            IN  /\ (o.installments_remaining = 0) <=> all_past
                /\ all_past <=> (o.next_due = NoDate)

\* Two purchases side by side, one concluded and one not.
C9_Witness ==
    /\ CardDrawn
    /\ \E o1, o2 \in OverviewRows :
           /\ o1.installments_remaining = 0 /\ o1.next_due = NoDate
           /\ o1.total_installments = 3
           /\ o2.installments_remaining > 0 /\ o2.next_due # NoDate

\* C10: the overview has no two rows of the same transaction_id, and every
\* installment of expanded belongs to exactly one row, that of its
\* transaction_id, where it is counted once, as paid or as remaining.
C10_OneRowPerPurchase ==
    CardDrawn =>
        /\ \A i, j \in 1..Len(overview) :
               i # j => overview[i].transaction_id # overview[j].transaction_id
        /\ \A k \in 1..Len(expanded) :
               Cardinality({i \in 1..Len(overview) :
                   overview[i].transaction_id = expanded[k].transaction_id}) = 1
        /\ \A i \in 1..Len(overview) :
               /\ InstallmentsOf(overview[i]) # {}
               /\ overview[i].installments_paid + overview[i].installments_remaining =
                      Cardinality(InstallmentsOf(overview[i]))

\* Two purchases of three installments each, consolidated into two rows.
C10_Witness ==
    /\ CardDrawn
    /\ Len(expanded) = 6
    /\ Len(overview) = 2

\* C11: over transactions of distinct ids the overview of the expansion has
\* exactly one row per credit-card transaction, for the due day of the
\* slider and the date read as today.
C11_OneRowPerTransaction ==
    CardDrawn =>
        /\ Len(overview) = Cardinality(CardTx)
        /\ {o.transaction_id : o \in OverviewRows} = {tx.id : tx \in CardTx}

\* Two card purchases, one of them concluded, drawn with due day 28.
C11_Witness ==
    /\ CardDrawn
    /\ due_day = 28
    /\ Cardinality(CardTx) = 2
    /\ Len(overview) = 2
    /\ \E o \in OverviewRows : o.status = "concluida"

\* The sum of installment_value over the installments of expanded at the
\* positions of S.
RECURSIVE SumOver(_)
SumOver(S) ==
    IF S = {} THEN 0
    ELSE LET k == CHOOSE x \in S : TRUE
         IN  expanded[k].installment_value + SumOver(S \ {k})

\* The positions of the installments due in the month of today, in the
\* year of today on or after today, and in the year of today before today.
InMonth(today) ==
    {k \in 1..Len(expanded) : /\ expanded[k].due_date.year = today.year
                              /\ expanded[k].due_date.month = today.month}
InYearUnpaid(today) ==
    {k \in 1..Len(expanded) : /\ expanded[k].due_date.year = today.year
                              /\ ~Before(expanded[k].due_date, today)}
InYearPaid(today) ==
    {k \in 1..Len(expanded) : /\ expanded[k].due_date.year = today.year
                              /\ Before(expanded[k].due_date, today)}

\* C12: valor_fatura_mes is the sum of installment_value over exactly the
\* installments due in today's month of today's year, whether due before
\* or after today.
C12_DueThisMonth ==
    CardDrawn => summary[1] = SumOver(InMonth(summary_today))

\* An installment of this month already past due is part of the sum.
C12_Witness ==
    /\ CardDrawn
    /\ \E k \in InMonth(summary_today) : Before(expanded[k].due_date, summary_today)
    /\ \E k \in 1..Len(expanded) : k \notin InMonth(summary_today)
    /\ summary[1] > 0

\* C13: divida_ano_a_pagar is the sum over the installments of today's
\* year due on or after today, valor_pago_ano the sum over those of today's
\* year due before today; installments of other years are in neither.
C13_YearWindows ==
    CardDrawn =>
        /\ summary[2] = SumOver(InYearUnpaid(summary_today))
        /\ summary[3] = SumOver(InYearPaid(summary_today))

\* Installments paid this year, to pay this year, and paid the year before.
C13_Witness ==
    /\ CardDrawn
    /\ summary[2] > 0
    /\ summary[3] > 0
    /\ \E k \in 1..Len(expanded) :
           /\ expanded[k].due_date.year # summary_today.year
           /\ Before(expanded[k].due_date, summary_today)

\* C14 as claimed: every installment of due_this_month is counted in
\* due_this_year_unpaid, so valor_fatura_mes <= divida_ano_a_pagar.
C14_MonthWithinUnpaid ==
    CardDrawn => summary[1] <= summary[2]

\* C14 as amended: every installment counted in valor_fatura_mes is counted
\* in exactly one window of the year, divida_ano_a_pagar when it is due on
\* or after today and valor_pago_ano when it is due before today; with no
\* negative value, valor_fatura_mes <= divida_ano_a_pagar + valor_pago_ano.
C14_MonthWithinYear ==
    CardDrawn =>
        LET M == InMonth(summary_today)
            U == InYearUnpaid(summary_today)
            P == InYearPaid(summary_today)
        IN  /\ summary[1] = SumOver(M \cap U) + SumOver(M \cap P)
            /\ summary[2] = SumOver(M \cap U) + SumOver(U \ M)
            /\ summary[3] = SumOver(M \cap P) + SumOver(P \ M)
            /\ (\A k \in 1..Len(expanded) : expanded[k].installment_value >= 0)
                   => summary[1] <= summary[2] + summary[3]

\* The month's invoice exceeds the year's debt still to pay: its
\* installment was due earlier this month.
C14_Witness ==
    /\ CardDrawn
    /\ summary[1] > summary[2]
    /\ summary[1] <= summary[3]

\* C15 as claimed: in one drawing of the card page the summary and the
\* overview classify the installments against the same today.
C15_OneToday ==
    (CardDrawn /\ expanded # <<>>) => summary_today = overview_today

\* C19: a stored installment count below 1 (zero or negative) does not make
\* expand_installments fail: the page is drawn without an exception and the
\* transaction has exactly one installment, numbered 1 of 1, carrying the
\* full amount.
C19_CountBelowOneIsOne ==
    pagina = "Cartao de Credito" =>
        \A tx \in CardTx :
            tx.installments < 1 =>
                /\ exception = "none"
                /\ LET rows == RowsOf(tx.id)
                   IN  /\ Len(rows) = 1
                       /\ rows[1].installment_no = 1
                       /\ rows[1].total_installments = 1
                       /\ rows[1].installment_value = tx.amount

C19_Witness ==
    /\ CardDrawn
    /\ \E tx \in CardTx :
           /\ tx.installments < 0
           /\ tx.amount = 2000
           /\ \E k \in 1..Len(expanded) :
                  /\ expanded[k].transaction_id = tx.id
                  /\ expanded[k].installment_value = 2000

\* The texts of the form that do not write an amount above zero: nothing
\* typed, zero, a text that is not a number, a negative amount.
InvalidValores ==
    { <<>>,
      <<"0">>,
      <<"a", "b", "c">>,
      <<"-", "5", ",", "0", "0">> }
BlankCategories == {" "}

\* C18: a run of the Dashboard that submits the form with an amount text
\* that is not a number above zero, or with a blank category, leaves the
\* stored transactions as they were and shows the error message.  (A step
\* is either a step that leaves the transactions and shows the message, or
\* a step that is no such run.)
C18_InvalidSubmissionRejected ==
    [][\/ /\ transactions' = transactions
          /\ st_error' = PreenchaCategoriaEValor
       \/ ~(pagina = "Dashboard" /\ pagina' = "Dashboard")
       \/ \A t_type \in TTypes, payment_type \in PaymentTypes, category \in FormCategories,
             d \in FormDates, valor_str \in FormValores, n \in FormInstallments,
             card \in CardNames :
              (valor_str \in InvalidValores \/ category \in BlankCategories)
                  => ~NovoLancamento(t_type, payment_type, category, d, valor_str, n, card)]_vars

C18_Witness ==
    /\ st_error = PreenchaCategoriaEValor
    /\ pagina = "Dashboard"
    /\ Len(transactions) = 1

\* The fields the statement of C16 holds fixed.
Frozen(tx) == <<tx.amount, tx.date, tx.installments, tx.type>>

\* C16 as stated: no step changes the amount, date, installment count or
\* type of a stored transaction.
C16_OnlyThreeFieldsChange ==
    [][\A i \in 1..Len(transactions) :
           Frozen(transactions'[i]) = Frozen(transactions[i])]_vars

\* C16, amended: no step removes a row or changes an id; a run of the card
\* page (its editors write through update_transaction_fields) and a run
\* that inserts a row leave the amount, date, installment count, type and
\* payment form of every stored row as they were.  The editor of the
\* Dashboard is the operation that rewrites them.
C16_CardPageKeepsFrozen ==
    [][/\ Len(transactions') >= Len(transactions)
       /\ \A i \in 1..Len(transactions) :
              /\ transactions'[i].id = transactions[i].id
              /\ (pagina' = "Cartao de Credito" \/ Len(transactions') > Len(transactions))
                     => /\ Frozen(transactions'[i]) = Frozen(transactions[i])
                        /\ transactions'[i].payment_type = transactions[i].payment_type]_vars

\* An editor of the card page has renamed the category of a purchase: the
\* page still shows the installments under the category of before.
C16_Witness ==
    /\ CardDrawn
    /\ \E tx \in CardTx :
           \E k \in 1..Len(expanded) :
               /\ expanded[k].transaction_id = tx.id
               /\ expanded[k].category # tx.category
               /\ expanded[k].installment_value * expanded[k].total_installments = tx.amount

\* C17: every stored transaction has amount > 0 and installments >= 1.
C17_PositiveAmountAndCount ==
    \A i \in 1..Len(transactions) :
        /\ transactions[i].amount > 0
        /\ transactions[i].installments >= 1

\* C20: on the empty frame compute_card_summary returns (0, 0, 0) and
\* build_purchase_overview returns an empty frame, neither raising.
C20_EmptyFrame ==
    [][expanded = <<>> =>
          /\ exception' = "none"
          /\ summary' = <<0, 0, 0>>
          /\ overview' = <<>>]_vars

C20_Witness ==
    /\ expanded = <<>>
    /\ pagina = "Cartao de Credito"
    /\ exception = "none"
    /\ summary = <<0, 0, 0>>
    /\ overview = <<>>

\* The installment value of the purchase of an overview row.
ValueOf(o) == expanded[CHOOSE k \in InstallmentsOf(o) : TRUE].installment_value

\* C22: remaining_value = max(0, installments_remaining * installment_value)
\* and total_value = total_installments * installment_value, so that
\* 0 <= remaining_value <= total_value.
C22_RemainingValue ==
    CardDrawn =>
        \A o \in OverviewRows :
            /\ o.remaining_value = Max(0, o.installments_remaining * ValueOf(o))
            /\ o.total_value = o.total_installments * ValueOf(o)
            /\ o.remaining_value >= 0
            /\ o.remaining_value <= o.total_value

\* C25: for every purchase date and every due day of the slider the page is
\* drawn without an exception, no installment is due before the purchase
\* date, and the first due date is before the same day of the month after
\* the purchase.
C25_FirstDueWithinAMonth ==
    pagina = "Cartao de Credito" =>
        /\ exception = "none"
        /\ \A tx \in CardTx :
               LET rows == RowsOf(tx.id)
               IN  /\ Len(rows) >= 1
                   /\ \A k \in 1..Len(rows) :
                          /\ ~Before(rows[k].due_date, tx.date)
                          /\ rows[k].installment_no = 1 =>
                                 DayKey(rows[k].due_date) <
                                     DayKey(FollowingMonth(tx.date, tx.date.day))

\* A purchase of 31 January 2023 drawn with due day 28: first due 28
\* February, a month without a day 31.
C25_Witness ==
    /\ CardDrawn
    /\ due_day = 28
    /\ \E tx \in CardTx :
           /\ tx.date = Date(2023, 1, 31)
           /\ \E k \in 1..Len(expanded) :
                  /\ expanded[k].installment_no = 1
                  /\ expanded[k].due_date = Date(2023, 2, 28)

\* The positions of the installments due in the year of today.
InYear(today) ==
    {k \in 1..Len(expanded) : expanded[k].due_date.year = today.year}

\* C26: the two year windows partition the installments due in the year of
\* today: valor_pago_ano + divida_ano_a_pagar is the sum of installment_value
\* over the installments due in that year, each counted once.
C26_YearWindowsPartition ==
    CardDrawn =>
        /\ summary[2] + summary[3] = SumOver(InYear(summary_today))
        /\ InYearPaid(summary_today) \cap InYearUnpaid(summary_today) = {}
        /\ InYearPaid(summary_today) \cup InYearUnpaid(summary_today) = InYear(summary_today)

\* An installment due today, next to one paid this year.
C26_Witness ==
    /\ CardDrawn
    /\ summary[3] > 0
    /\ \E k \in 1..Len(expanded) : expanded[k].due_date = summary_today

\* The sum of remaining_value over the overview rows at the positions of S.
RECURSIVE SumRemainingValue(_)
SumRemainingValue(S) ==
    IF S = {} THEN 0
    ELSE LET i == CHOOSE x \in S : TRUE
         IN  overview[i].remaining_value + SumRemainingValue(S \ {i})

\* C28: the sum of remaining_value over the overview is the sum of
\* installment_value over the installments due on or after today, and
\* 0 <= installments_remaining <= total_installments in every row.
C28_ConsolidationAgrees ==
    CardDrawn =>
        /\ SumRemainingValue(1..Len(overview)) =
               SumOver({k \in 1..Len(expanded) :
                           ~Before(expanded[k].due_date, overview_today)})
        /\ \A o \in OverviewRows :
               /\ 0 <= o.installments_remaining
               /\ o.installments_remaining <= o.total_installments

AllSettled ==
    /\ CardDrawn
    /\ overview # <<>>
    /\ \A o \in OverviewRows : o.status = "concluida"

\* C27: with the stored transactions fixed and today advancing day by day,
\* installments_paid of a purchase never decreases, a purchase that is
\* "concluida" stays so, a purchase is "concluida" on every day after its
\* last due date, and every purchase comes to be "concluida".
C27_SettlesOverTime ==
    /\ [][(CardDrawn /\ CardDrawn' /\ overview # <<>>) =>
             /\ Len(overview') = Len(overview)
             /\ \A i \in 1..Len(overview) :
                    /\ overview'[i].transaction_id = overview[i].transaction_id
                    /\ overview'[i].installments_paid >= overview[i].installments_paid
                    /\ overview[i].status = "concluida" =>
                           overview'[i].status = "concluida"]_vars
    /\ [](CardDrawn =>
             \A o \in OverviewRows :
                 (\A d \in DuesOf(o) : Before(d, overview_today)) => o.status = "concluida")
    /\ <>[]AllSettled

\* A purchase in three installments on the day after its last due date,
\* reached day by day.
C27_Witness ==
    /\ AllSettled
    /\ \E o \in OverviewRows :
           /\ o.total_installments = 3
           /\ o.installments_paid = 3
           /\ \E d \in DuesOf(o) :
                  /\ overview_today = NextDay(d)
                  /\ \A e \in DuesOf(o) : ~Before(d, e)

\* The stored rows that are not expenses paid by credit card.
SemCartao ==
    SelectSeq(transactions, LAMBDA r : ~(r.type = "saida" /\ r.payment_type = CartaoDeCredito))

\* The expenses of the month of the summary in category c, whatever paid them.
SaidasDoMes(c) ==
    {i \in 1..Len(transactions) :
        /\ transactions[i].type = "saida"
        /\ transactions[i].category = c
        /\ transactions[i].date.year = resumo.ref_date.year
        /\ transactions[i].date.month = resumo.ref_date.month}

RECURSIVE SumAmounts(_)
SumAmounts(S) ==
    IF S = {} THEN 0
    ELSE LET i == CHOOSE x \in S : TRUE
         IN  transactions[i].amount + SumAmounts(S \ {i})

\* C24: total_saida and saldo of the summary are those of the same rows
\* without the expenses paid by credit card, and df_cat lists every category
\* with an expense in the month, at the sum of all its expenses of the
\* month, those paid by card among them.
C24_CardOutOfCashFigures ==
    resumo # NoResumo =>
        /\ resumo.total_saida = resumo_of(SemCartao, resumo.ref_date).total_saida
        /\ resumo.saldo = resumo_of(SemCartao, resumo.ref_date).saldo
        /\ \A c \in SummaryCategories :
               SaidasDoMes(c) # {} =>
                   \E k \in 1..Len(resumo.df_cat) :
                       /\ resumo.df_cat[k].category = c
                       /\ resumo.df_cat[k].amount = SumAmounts(SaidasDoMes(c))
        /\ \A k \in 1..Len(resumo.df_cat) : SaidasDoMes(resumo.df_cat[k].category) # {}

\* A month with an expense paid from the account and one paid by card: the
\* breakdown shows more than total_saida.
C24_Witness ==
    /\ resumo # NoResumo
    /\ resumo.ref_date # MesDeReferencia
    /\ resumo.total_saida > 0
    /\ \E i \in 1..Len(transactions) :
           /\ transactions[i].payment_type = CartaoDeCredito
           /\ i \in SaidasDoMes(transactions[i].category)
    /\ \E k \in 1..Len(resumo.df_cat) : resumo.df_cat[k].amount > resumo.total_saida

\* C21: every row a page shows data of is a row of the user who is logged
\* in, whichever of the four pages is drawn.
C21_RowsOfTheUser ==
    \A r \in read.shown : r.user_id = session_state.user.id

\* C29: no two rows of app_users have the same e-mail, and no call of
\* create_user ends other than by returning the new id or None.
C29_OneAccountPerEmail ==
    /\ \A i, j \in 1..Len(app_users) : i # j => app_users[i].email # app_users[j].email
    /\ \A s \in Sessions : create_user_calls[s].pc # "raised"

\* C30: load_data is not called in a run that ends at the log-in screen,
\* and in any other run it is called with the id of the user who is logged
\* in, which all the rows it returns carry.
C30_LoadsForTheUserLoggedIn ==
    /\ session_state.user = NoUser => read = NoRead
    /\ session_state.user # NoUser =>
           /\ read.user_id = session_state.user.id
           /\ \A r \in read.df : r.user_id = session_state.user.id

\* The second user of the table is logged in and the card page is drawn
\* from the rows of that user.
C30_Witness ==
    /\ session_state.user.id = UserB.id
    /\ pagina = "Cartao de Credito"
    /\ read.user_id = UserB.id
    /\ read.df # {}
    /\ \E i \in 1..Len(transactions) : transactions[i].user_id = UserA.id
====
